---- MODULE Spec2Model ----
(***************************************************************************)
(* Model of the Wishbone/Etherbone bridge tools of wishbone-utils:         *)
(* the 20-byte packet codec, the UDP transport, the width-translating      *)
(* register adapter (WISHBONE_WIDTH 8 or 32) and the RISC-V debug bridge.  *)
(*                                                                         *)
(* TLC integers are 32-bit signed, so a C uintN_t is modelled as the tuple *)
(* of its bytes, least significant byte first: w[k+1] = (x >> 8k) & 0xff.  *)
(***************************************************************************)
EXTENDS Integers, Sequences, FiniteSets, TLC

VARIABLES
    hostBE,     \* __BYTE_ORDER == __BIG_ENDIAN of the build
    width,      \* WISHBONE_WIDTH of the build: 8 or 32
    target,     \* the register address the caller works on in this run
    codec,      \* the codec functions applied to drawn inputs
    alive,      \* FALSE once the process has called exit(1)
    op,         \* the register-adapter call in progress, and its result
    echo,       \* the last wb_write32, while no later write has been made
    rx,         \* datagrams queued on the receive socket
    mem,        \* the remote registers that have been written
    wire,       \* wb_send / wb_recv calls of the adapter call in progress
    stderr,     \* "Unexpected read length" lines of the call in progress
    nops,       \* adapter calls made so far
    faults,     \* short replies and failed receives so far
    dbg,        \* the riscv_debug_read32 / riscv_debug_write32 call in progress
    connected,  \* wb_connect has returned 0
    connCounter, \* conn->counter
    dropped,    \* "Dropped packet!" lines printed so far
    hwCounter,  \* the remote packet counter register
    hwPending,  \* debug-bus transactions the remote end has yet to complete
    hwLog,      \* what has happened to the link and the counter so far
    srv,        \* the relay loop of main: its position, session and request
    peer        \* the clients of the relay

buildVars == <<hostBE, width, target>>

hostVars == <<alive, op, echo, wire, stderr, nops>>

netVars == <<rx, mem, faults>>

dbgVars == <<dbg, connected, connCounter, dropped>>

hwVars == <<hwCounter, hwPending, hwLog>>

relayVars == <<srv, peer>>

vars == <<hostBE, width, target, codec, alive, op, echo, rx, mem, wire, stderr, nops, faults,
          dbg, connected, connCounter, dropped, hwCounter, hwPending, hwLog,
          srv, peer>>

\* ------------------------------------------------------------------ bounds
MaxVals == 3
MaxAddrs == 3
MaxStale == 2
MaxOps == 2
MaxFaults == 1

\* ------------------------------------------------------- fixed-width words
Byte == 0..255

W32(b3, b2, b1, b0) == <<b0, b1, b2, b3>>

Zero32 == <<0, 0, 0, 0>>

AllOnes32 == <<255, 255, 255, 255>>

\* (uint32_t)(uint8_t)x
ZeroExtend(w, n) == [k \in 1..n |-> IF k <= Len(w) THEN w[k] ELSE 0]

\* (uintN_t)x for a narrower N
Truncate(w, n) == [k \in 1..n |-> w[k]]

\* x >> (8 * k), same width
ShiftRightBytes(w, k) == [j \in 1..Len(w) |-> IF j + k <= Len(w) THEN w[j + k] ELSE 0]

\* x << (8 * k), same width
ShiftLeftBytes(w, k) == [j \in 1..Len(w) |-> IF j - k >= 1 THEN w[j - k] ELSE 0]

\* bitwise or of two bytes, bit by bit
RECURSIVE OrByte(_, _, _)
OrByte(a, b, n) ==
    IF n = 0 THEN 0
    ELSE (IF (a % 2 = 1) \/ (b % 2 = 1) THEN 1 ELSE 0) + 2 * OrByte(a \div 2, b \div 2, n - 1)

\* x | y
Or(w, v) == [j \in 1..Len(w) |-> OrByte(w[j], v[j], 8)]

\* bswap_16 / bswap_32 / bswap_64
bswap(w) == [j \in 1..Len(w) |-> w[Len(w) + 1 - j]]

\* (x + n) modulo 2^32, 0 <= n < 2^24
Add32(w, n) ==
    LET lo == w[1] + 256 * w[2] + 65536 * w[3] + n
        hi == (w[4] + (lo \div 16777216)) % 256
    IN  <<lo % 256, (lo \div 256) % 256, (lo \div 65536) % 256, hi>>

\* (x - y) modulo 2^32
Sub32(w, v) ==
    LET d  == (w[1] + 256 * w[2] + 65536 * w[3]) - (v[1] + 256 * v[2] + 65536 * v[3])
        lo == IF d < 0 THEN d + 16777216 ELSE d
        hi == (256 + w[4] - v[4] - (IF d < 0 THEN 1 ELSE 0)) % 256
    IN  <<lo % 256, (lo \div 256) % 256, (lo \div 65536) % 256, hi>>

\* ------------------------------------------------------------ <endian.h>
htobe(w) == IF hostBE THEN w ELSE bswap(w)

betoh(w) == IF hostBE THEN w ELSE bswap(w)

htole(w) == IF hostBE THEN bswap(w) ELSE w

letoh(w) == IF hostBE THEN bswap(w) ELSE w

\* the bytes of an object in memory, lowest address first
MemBytes(w) == IF hostBE THEN bswap(w) ELSE w

\* the object whose bytes in memory are m
FromMemBytes(m) == IF hostBE THEN bswap(m) ELSE m

\* memcpy(&buf[off], &x, sizeof x) / a store to a packed struct field;
\* off is the C byte offset, buf[off] is element off + 1
PutField(buf, off, w) ==
    [n \in 1..Len(buf) |->
        IF n > off /\ n <= off + Len(w) THEN MemBytes(w)[n - off] ELSE buf[n]]

\* memcpy(&x, &buf[off], 4)
GetField32(buf, off) == FromMemBytes([k \in 1..4 |-> buf[off + k]])

\* ------------------------------------------------------------ input sets
\* 0x12345678, 0xFFFFFFFF, 0x800000FE, 0x00000000, 0x00FF0100
ValList == <<W32(18, 52, 86, 120), AllOnes32, W32(128, 0, 0, 254), Zero32, W32(0, 255, 1, 0)>>

CodecVals == {ValList[k] : k \in 1..MaxVals}

Vals == {ValList[1], ValList[2]}

\* 0x10000000, 0xFFFFFFF8 (the stride wraps), 0xE0005800, 0x10000004
AddrList == <<W32(16, 0, 0, 0), W32(255, 255, 255, 248), W32(224, 0, 88, 0), W32(16, 0, 0, 4)>>

CodecAddrs == {AddrList[k] : k \in 1..MaxAddrs}

Addrs == {AddrList[1], AddrList[2]}

\* what an uninitialised uint8_t raw_pkt[20] on the stack may hold
StaleBuf(g) == [n \in 1..20 |-> (g * 165) % 256]

CodecStaleBufs == {StaleBuf(g) : g \in 0..MaxStale}

StaleBufs == {StaleBuf(0), StaleBuf(1)}

\* ------------------------------------------------------------------ codec
ADDR_SIZE_32 == 4

PORT_SIZE_32 == 4

PKT_LEN == 20

\* struct etherbone_packet, byte 2: version:4 in the high nibble in both
\* bit-field orders, the four flags zeroed by the memset
VersionByte(version) == version * 16

\* struct etherbone_packet, byte 3: port_size in the high nibble, addr_size
\* in the low one, in both bit-field orders
SizeByte(addr_size, port_size) == port_size * 16 + addr_size

\* memset(pkt, 0, sizeof(*pkt)) clears the 8 header bytes only: records[0]
\* is a zero-length member, so bytes 8, 9 and 12..19 keep what raw_pkt held
wb_fillpkt_nocounts(raw_pkt, read_count, write_count) ==
    [n \in 1..PKT_LEN |->
        CASE n = 1 -> 78
          [] n = 2 -> 111
          [] n = 3 -> VersionByte(1)
          [] n = 4 -> SizeByte(ADDR_SIZE_32, PORT_SIZE_32)
          [] n \in 5..8 -> 0
          [] OTHER -> raw_pkt[n]]

wb_fillpkt(raw_pkt, read_count, write_count) ==
    [n \in 1..PKT_LEN |->
        CASE n = 1 -> 78
          [] n = 2 -> 111
          [] n = 3 -> VersionByte(1)
          [] n = 4 -> SizeByte(ADDR_SIZE_32, PORT_SIZE_32)
          [] n \in 5..8 -> 0
          [] n = 11 -> write_count % 256
          [] n = 12 -> read_count % 256
          [] OTHER -> raw_pkt[n]]

\* the packet wb_write32 (word-native, etherbone-devmem2) builds
WritePkt_noaddr(raw_pkt, addr, val) ==
    PutField(wb_fillpkt(raw_pkt, 0, 1), 16, htobe(val))

WritePkt(raw_pkt, addr, val) ==
    PutField(PutField(wb_fillpkt(raw_pkt, 0, 1), 12, htobe(addr)), 16, htobe(val))

\* the packet wb_read32 / wb_read8 builds: the address goes in the value field
ReadPkt_inaddr(raw_pkt, addr) ==
    PutField(wb_fillpkt(raw_pkt, 1, 0), 12, htobe(addr))

ReadPkt(raw_pkt, addr) ==
    PutField(wb_fillpkt(raw_pkt, 1, 0), 16, htobe(addr))

eb_fill_readwrite32(wb_buffer, address, data, is_read) ==
    LET hdr == [n \in 1..PKT_LEN |->
                  CASE n = 1 -> 78
                    [] n = 2 -> 111
                    [] n = 3 -> 16
                    [] n = 4 -> 68
                    [] n \in 5..8 -> 0
                    [] n = 9 -> 0
                    [] n = 10 -> 15
                    [] OTHER -> wb_buffer[n]]
    IN  IF is_read
        THEN PutField([hdr EXCEPT ![11] = 0, ![12] = 1], 16, htobe(address))
        ELSE PutField(PutField([hdr EXCEPT ![11] = 1, ![12] = 0], 12, htobe(address)),
                      16, htobe(data))

eb_fill_write32(wb_buffer, address, data) == eb_fill_readwrite32(wb_buffer, address, data, FALSE)

eb_fill_read32(wb_buffer, address) == eb_fill_readwrite32(wb_buffer, address, Zero32, TRUE)

\* the int it returns, as its 32-bit pattern
eb_unfill_read32(wb_buffer) == betoh(GetField32(wb_buffer, 16))

\* recvfrom(fd, bytes, max_len, 0, NULL, NULL) of one datagram: the count it
\* returns and the buffer afterwards (a datagram longer than max_len is cut)
RecvCount(dgram, max_len) == IF Len(dgram) < max_len THEN Len(dgram) ELSE max_len

RecvInto(buf, dgram, max_len) ==
    [n \in 1..Len(buf) |-> IF n <= RecvCount(dgram, max_len) THEN dgram[n] ELSE buf[n]]

\* wb_read32 (word-native, etherbone-devmem2) after wb_recv returned count
DecodeReply32_nocheck(count, raw_pkt) ==
    [err |-> FALSE, val |-> betoh(GetField32(raw_pkt, 16))]

DecodeReply32(count, raw_pkt) ==
    IF count # PKT_LEN
    THEN [err |-> TRUE, val |-> AllOnes32]
    ELSE [err |-> FALSE, val |-> betoh(GetField32(raw_pkt, 16))]

\* wb_read8 (byte-native) after wb_recv returned count
DecodeReply8_zero(count, raw_pkt) ==
    IF count # PKT_LEN
    THEN [err |-> TRUE, val |-> <<0>>]
    ELSE [err |-> FALSE, val |-> Truncate(betoh(GetField32(raw_pkt, 16)), 1)]

DecodeReply8(count, raw_pkt) ==
    IF count # PKT_LEN
    THEN [err |-> TRUE, val |-> <<255>>]
    ELSE [err |-> FALSE, val |-> Truncate(betoh(GetField32(raw_pkt, 16)), 1)]

\* the remote endpoint's answer to a read: a 20-byte packet whose value field
\* carries the data, big-endian
ReplyPkt(req, data) ==
    [n \in 1..PKT_LEN |->
        CASE n = 11 -> 1
          [] n = 12 -> 0
          [] n \in 13..16 -> 0
          [] n \in 17..20 -> data[21 - n]
          [] OTHER -> req[n]]

\* a datagram of len bytes: the reply cut short, or padded with zeros
Datagram(pkt, len) == [n \in 1..len |-> IF n <= Len(pkt) THEN pkt[n] ELSE 0]

\* ----------------------------------------------------------- debug bridge
\* the register map of the generated header: 32-bit registers 16 bytes apart
CSR_CPU_OR_BRIDGE_DEBUG_CORE == W32(224, 0, 104, 0)

CSR_CPU_OR_BRIDGE_DEBUG_DATA == W32(224, 0, 104, 16)

CSR_CPU_OR_BRIDGE_DEBUG_SYNC == W32(224, 0, 104, 32)

CSR_CPU_OR_BRIDGE_DEBUG_PACKET_COUNTER == W32(224, 0, 104, 36)

MaxReg == 5

MaxLoops == 2

MaxSkips == 1

MaxLost == 1

\* uint8_t addr of riscv_debug_read32 / riscv_debug_write32
DebugRegs == 0..MaxReg

\* nothing lost, nothing late, no foreign transaction
NoHwLog == [late |-> FALSE, lost |-> 0, lostAt |-> 0, lostSync |-> FALSE, skips |-> 0, skipAt |-> 0]

NoDebug == [kind |-> "none", reg |-> 0, value |-> Zero32, phase |-> "idle",
            counter |-> Zero32, seen |-> Zero32, loops |-> 0, calls |-> <<>>, ret |-> <<>>,
            prev |-> "none"]

\* ------------------------------------------------------------ relay server
VRV_RW_READ == 0

VRV_RW_WRITE == 1

\* 0xf00f0000, the first address of the debug window, and the first one after it
DEBUG_WINDOW_BASE == W32(240, 15, 0, 0)

DEBUG_WINDOW_END == W32(240, 15, 0, 8)

\* sizeof(vrv_bfr), sizeof(struct vexriscv_req)
REQ_LEN == 10

MaxReqs == 2

MaxClients == 2

MaxShort == 1

\* x < y on uint32_t
RECURSIVE LessFrom(_, _, _)
LessFrom(x, y, k) ==
    IF k = 0 THEN FALSE
    ELSE IF x[k] # y[k] THEN x[k] < y[k]
    ELSE LessFrom(x, y, k - 1)

Less32(x, y) == LessFrom(x, y, 4)

\* (req->address >= 0xf00f0000) && (req->address < 0xf00f0008)
InWindow_inclusive(address) ==
    ~Less32(address, DEBUG_WINDOW_BASE) /\ ~Less32(DEBUG_WINDOW_END, address)

InWindow(address) ==
    ~Less32(address, DEBUG_WINDOW_BASE) /\ Less32(address, DEBUG_WINDOW_END)

\* req->address -= 0xf00f0000, passed on as uint8_t addr
WindowReg(address) == Sub32(address, DEBUG_WINDOW_BASE)[1]

\* struct vexriscv_req, packed, as the bytes of a 10-byte read and back
ReqBytes(req) == <<req.readwrite, req.size>> \o MemBytes(req.address) \o MemBytes(req.data)

ReqOf(bfr) ==
    [readwrite |-> bfr[1], size |-> bfr[2],
     address |-> FromMemBytes(SubSeq(bfr, 3, 6)), data |-> FromMemBytes(SubSeq(bfr, 7, 10))]

\* the addresses clients ask for: the window's registers, its last byte and
\* the registers on either side of it
RelayAddrs ==
    {DEBUG_WINDOW_BASE, Add32(DEBUG_WINDOW_BASE, 4), Add32(DEBUG_WINDOW_BASE, 7),
     DEBUG_WINDOW_END, Sub32(DEBUG_WINDOW_BASE, W32(0, 0, 0, 1))}

RelayData == {ValList[1]}

\* well-formed requests at every address, and the malformed ones (an unknown
\* width, an unknown command) inside and outside the window
Requests ==
    [readwrite : {VRV_RW_READ, VRV_RW_WRITE}, size : {0, 1, 2}, address : RelayAddrs, data : RelayData]
    \cup [readwrite : {VRV_RW_READ, VRV_RW_WRITE}, size : {3}, address : {DEBUG_WINDOW_BASE, DEBUG_WINDOW_END}, data : RelayData]
    \cup [readwrite : {2}, size : {2}, address : {DEBUG_WINDOW_BASE, DEBUG_WINDOW_END}, data : RelayData]

\* byte counts of a read that is neither a request nor the end of the stream
ShortReads == {7}

NoReq == [readwrite |-> VRV_RW_WRITE, size |-> 0, address |-> Zero32, data |-> Zero32]

\* the relay between two requests, no client accepted yet
NoSrv == [pc |-> "top", connect_fd |-> 0, req |-> NoReq, route |-> "none", resp |-> Zero32,
          last |-> "none", n |-> 0, replied |-> FALSE, reply |-> <<>>, err |-> 0]

\* no client has connected yet
NoPeer == [waiting |-> 0, clients |-> 0, open |-> {}, reqs |-> 0, shorts |-> 0, got |-> 0]

\* no adapter call yet
NoOp == [name |-> "none", addr |-> Zero32, val |-> <<>>, buf |-> <<>>, i |-> 0,
         acc |-> <<>>, st |-> "idle", ret |-> <<>>, clean |-> TRUE, old |-> Zero32]

NoEcho == [set |-> FALSE, addr |-> Zero32, val |-> Zero32, wide |-> <<>>]

\* ------------------------------------------- the codec on drawn inputs
MaxExtra == 1

ReplyLens == {0, 8, 19, 20} \cup {PKT_LEN + k : k \in 1..MaxExtra}

CodecInit ==
    /\ hostBE \in BOOLEAN
    /\ width \in {8, 32}
    /\ target = Zero32
    /\ codec \in [fn : {"none"}, address : CodecAddrs, data : CodecVals, raw : CodecStaleBufs,
                  out : {<<>>}, count : {0}, res : {[err |-> FALSE, val |-> <<>>]}]
    /\ alive = TRUE
    /\ op = NoOp
    /\ echo = NoEcho
    /\ rx = <<>>
    /\ mem = <<>>
    /\ wire = <<>>
    /\ stderr = 0
    /\ nops = 0
    /\ faults = 0
    /\ dbg = NoDebug
    /\ connected = TRUE
    /\ connCounter = AllOnes32
    /\ dropped = 0
    /\ hwCounter = Zero32
    /\ hwPending = 0
    /\ hwLog = NoHwLog
    /\ srv = NoSrv
    /\ peer = NoPeer

Encode(fn, pkt) ==
    /\ codec.fn = "none"
    /\ codec' = [codec EXCEPT !.fn = fn, !.out = pkt]
    /\ UNCHANGED <<buildVars, relayVars, hostVars, netVars, dbgVars, hwVars>>

EncodeEbWrite == Encode("eb_fill_write32", eb_fill_write32(codec.raw, codec.address, codec.data))

EncodeEbRead == Encode("eb_fill_read32", eb_fill_read32(codec.raw, codec.address))

EncodeWbWrite == Encode("wb_write32", WritePkt(codec.raw, codec.address, codec.data))

EncodeWbWrite8 ==
    Encode("wb_write8", WritePkt(codec.raw, codec.address, ZeroExtend(Truncate(codec.data, 1), 4)))

EncodeWbRead == Encode("wb_read32", ReadPkt(codec.raw, codec.address))

\* the reply to an encoded read arrives in the buffer that held the request
DecodeWb ==
    /\ codec.fn = "wb_read32"
    /\ \E len \in ReplyLens :
         LET dgram == Datagram(ReplyPkt(codec.out, codec.data), len)
             count == RecvCount(dgram, PKT_LEN)
             buf   == RecvInto(codec.out, dgram, PKT_LEN)
         IN  codec' = [codec EXCEPT !.fn = "decode_wb", !.out = buf, !.count = count,
                                    !.res = DecodeReply32(count, buf)]
    /\ UNCHANGED <<buildVars, relayVars, hostVars, netVars, dbgVars, hwVars>>

\* recvfrom fails: -1, the buffer still holds the request
DecodeWbError ==
    /\ codec.fn = "wb_read32"
    /\ codec' = [codec EXCEPT !.fn = "decode_wb", !.count = -1,
                              !.res = DecodeReply32(-1, codec.out)]
    /\ UNCHANGED <<buildVars, relayVars, hostVars, netVars, dbgVars, hwVars>>

DecodeEb ==
    /\ codec.fn = "eb_fill_read32"
    /\ LET buf == RecvInto(codec.out, ReplyPkt(codec.out, codec.data), PKT_LEN)
       IN  codec' = [codec EXCEPT !.fn = "eb_unfill_read32", !.out = buf, !.count = PKT_LEN,
                                  !.res = [err |-> FALSE, val |-> eb_unfill_read32(buf)]]
    /\ UNCHANGED <<buildVars, relayVars, hostVars, netVars, dbgVars, hwVars>>

CodecNext ==
    \/ EncodeEbWrite
    \/ EncodeEbRead
    \/ EncodeWbWrite
    \/ EncodeWbWrite8
    \/ EncodeWbRead
    \/ DecodeWb
    \/ DecodeWbError
    \/ DecodeEb

SpecCodec == CodecInit /\ [][CodecNext]_vars

\* ------------------------------------------------------ register adapter
WriteOps == {"write8", "write16", "write32", "write64"}

ReadOps == {"read8", "read16", "read32", "read64"}

\* sizeof the value of wb_write<N> / wb_read<N>
OpBytes(name) ==
    CASE name \in {"write8", "read8"} -> 1
      [] name \in {"write16", "read16"} -> 2
      [] name \in {"write32", "read32"} -> 4
      [] name \in {"write64", "read64"} -> 8

\* how many native transactions a call makes: the bound of its for loop
NativeCount(name) ==
    IF width = 8 THEN OpBytes(name)
    ELSE IF OpBytes(name) = 8 THEN 2 ELSE 1

\* addr + (i * 4), uint32_t
StrideAddr_packed(addr, i) == Add32(addr, i)

StrideAddr(addr, i) == Add32(addr, i * 4)

\* the value of native write i of a write call.
\* WISHBONE_WIDTH 8: val = htole<N>(val); wb_write8(conn, addr + (i * 4), val >> ((n - 1 - i) * 8))
\* WISHBONE_WIDTH 32: wb_write32(conn, addr, val & mask), and for 64 bits
\*   val = htole64(val); wb_write32(conn, addr + (i * 4), val >> ((1 - i) * 8))
NativeWriteVal_rmw(name, val, i) ==
    IF width = 8
    THEN ZeroExtend(Truncate(ShiftRightBytes(htole(val), OpBytes(name) - 1 - i), 1), 4)
    ELSE IF OpBytes(name) = 8
         THEN Truncate(ShiftRightBytes(htole(val), 1 - i), 4)
         ELSE [k \in 1..4 |-> IF k <= Len(val) THEN val[k] ELSE op.old[k]]

NativeWriteVal_lsbfirst(name, val, i) ==
    IF width = 8
    THEN ZeroExtend(Truncate(ShiftRightBytes(htole(val), i), 1), 4)
    ELSE IF OpBytes(name) = 8
         THEN Truncate(ShiftRightBytes(htole(val), 1 - i), 4)
         ELSE ZeroExtend(val, 4)

NativeWriteVal(name, val, i) ==
    IF width = 8
    THEN ZeroExtend(Truncate(ShiftRightBytes(htole(val), OpBytes(name) - 1 - i), 1), 4)
    ELSE IF OpBytes(name) = 8
         THEN Truncate(ShiftRightBytes(htole(val), 1 - i), 4)
         ELSE ZeroExtend(val, 4)

\* val |= ((uintN_t)native) << (shift * 8) of read i
Accumulate(name, acc, native, i) ==
    IF width = 8
    THEN Or(acc, ShiftLeftBytes(ZeroExtend(native, OpBytes(name)), OpBytes(name) - 1 - i))
    ELSE IF OpBytes(name) = 8
         THEN Or(acc, ShiftLeftBytes(ZeroExtend(native, 8), 1 - i))
         ELSE native

\* what the read call returns once its loop is over
ReadResult_wide(name, acc) ==
    IF width = 8
    THEN (IF OpBytes(name) = 1 THEN acc ELSE letoh(acc))
    ELSE IF OpBytes(name) = 8 THEN letoh(acc) ELSE acc

ReadResult_noswap(name, acc) ==
    IF width = 8 THEN acc
    ELSE IF OpBytes(name) = 8 THEN acc ELSE Truncate(acc, OpBytes(name))

ReadResult(name, acc) ==
    IF width = 8
    THEN (IF OpBytes(name) = 1 THEN acc ELSE letoh(acc))
    ELSE IF OpBytes(name) = 8 THEN letoh(acc) ELSE Truncate(acc, OpBytes(name))

\* the native read's own return: uint8_t in byte-native mode, uint32_t otherwise
DecodeNative(count, raw_pkt) ==
    IF width = 8 THEN DecodeReply8(count, raw_pkt) ELSE DecodeReply32(count, raw_pkt)

ZeroWord(n) == [k \in 1..n |-> 0]

\* a big-endian 32-bit field of a packet on the wire
WireField(pkt, off) == <<pkt[off + 4], pkt[off + 3], pkt[off + 2], pkt[off + 1]>>

\* what the remote end makes of a packet: its kind, the address it names
\* (the value field of a read, the write-address field of a write) and the data
SendEvent(pkt) ==
    [ev |-> "send", wcount |-> pkt[11], rcount |-> pkt[12],
     addr |-> IF pkt[11] = 1 THEN WireField(pkt, 12) ELSE WireField(pkt, 16),
     value |-> IF pkt[11] = 1 THEN WireField(pkt, 16) ELSE Zero32,
     len |-> Len(pkt)]

RecvEvent(count, res) ==
    [ev |-> "recv", count |-> count, err |-> res.err, native |-> res.val]

\* the remote registers: one that was never written reads as zero
MemRead(a) == IF a \in DOMAIN mem THEN mem[a] ELSE Zero32

MemWrite(a, v) == [x \in DOMAIN mem \cup {a} |-> IF x = a THEN v ELSE mem[x]]

\* the caller enters wb_write<N> / wb_read<N>
StartOp(name, a, v) ==
    /\ op' = [name |-> name, addr |-> a, val |-> v, buf |-> <<>>, i |-> 0,
              acc |-> IF name \in ReadOps THEN ZeroWord(OpBytes(name)) ELSE <<>>,
              st |-> "send", ret |-> <<>>, clean |-> TRUE, old |-> MemRead(a)]
    /\ echo' = IF name = "write32" THEN [set |-> TRUE, addr |-> a, val |-> v, wide |-> <<>>]
               ELSE IF name = "write64" THEN [NoEcho EXCEPT !.addr = a, !.wide = v]
               ELSE IF name \in WriteOps THEN NoEcho ELSE echo
    /\ wire' = <<>>
    /\ stderr' = 0

Vals64 == {v \o bswap(v) : v \in Vals}

OpVals(name) ==
    IF name \in ReadOps THEN {<<>>}
    ELSE IF OpBytes(name) = 8 THEN Vals64
    ELSE {Truncate(v, OpBytes(name)) : v \in Vals}

Call ==
    /\ alive
    /\ op.st \in {"idle", "done"}
    /\ nops < MaxOps
    /\ \E name \in WriteOps \cup ReadOps :
         \E v \in OpVals(name) : StartOp(name, target, v)
    /\ nops' = nops + 1
    /\ UNCHANGED <<buildVars, relayVars, codec, alive, netVars, dbgVars, hwVars>>

\* the remote end takes a packet the moment it is sent (the link keeps the
\* order and this end never waits for a write): a write is stored and not
\* answered, a read is answered with the stored value
RemoteStore(pkt) == MemWrite(WireField(pkt, 12), WireField(pkt, 16))

\* the packet counter register as the bus shows it: the whole word on a
\* 32-bit bus; on an 8-bit bus one byte per address, in the order in which
\* this build's wb_write32 lays a word out
CounterLane(a) ==
    IF width = 32
    THEN (IF a = CSR_CPU_OR_BRIDGE_DEBUG_PACKET_COUNTER THEN 0 ELSE -1)
    ELSE IF \E k \in 0..3 : a = Add32(CSR_CPU_OR_BRIDGE_DEBUG_PACKET_COUNTER, 4 * k)
         THEN CHOOSE k \in 0..3 : a = Add32(CSR_CPU_OR_BRIDGE_DEBUG_PACKET_COUNTER, 4 * k)
         ELSE -1

HwRead(a) ==
    IF CounterLane(a) = -1 THEN MemRead(a)
    ELSE IF width = 32 THEN hwCounter
    ELSE NativeWriteVal("write32", hwCounter, CounterLane(a))

RemoteReply(pkt) == ReplyPkt(pkt, HwRead(WireField(pkt, 16)))

\* a write that completes CORE, DATA or SYNC starts one debug-bus transaction
LastLane(reg) == IF width = 32 THEN reg ELSE Add32(reg, 12)

HwTrigger(a) ==
    \/ a = LastLane(CSR_CPU_OR_BRIDGE_DEBUG_CORE)
    \/ a = LastLane(CSR_CPU_OR_BRIDGE_DEBUG_DATA)
    \/ a = CSR_CPU_OR_BRIDGE_DEBUG_SYNC

\* the counter read that opens a debug call is answered while an earlier
\* transaction has yet to complete
LateRead == dbg.phase = "counter" /\ hwPending > 0

HwAfterWrite(pkt) == hwPending + (IF HwTrigger(WireField(pkt, 12)) THEN 1 ELSE 0)

\* a write that waits for an acknowledgement
NativeWrite_ack ==
    /\ alive
    /\ op.st = "send"
    /\ op.name \in WriteOps
    /\ \E stale \in StaleBufs :
         LET pkt == WritePkt(stale, StrideAddr(op.addr, op.i), NativeWriteVal(op.name, op.val, op.i))
         IN  /\ mem' = RemoteStore(pkt)
             /\ wire' = Append(wire, SendEvent(pkt))
             /\ op' = [op EXCEPT !.st = "recv", !.buf = pkt]
             /\ hwPending' = HwAfterWrite(pkt)
    /\ UNCHANGED <<buildVars, relayVars, codec, alive, echo, stderr, nops, rx, faults, dbgVars, hwCounter, hwLog>>

\* wb_write8 (byte-native) or wb_write32 (word-native): wb_fillpkt into an
\* uninitialised raw_pkt, the two fields, wb_send, return
NativeWrite ==
    /\ alive
    /\ op.st = "send"
    /\ op.name \in WriteOps
    /\ \E stale \in StaleBufs :
         LET pkt == WritePkt(stale, StrideAddr(op.addr, op.i), NativeWriteVal(op.name, op.val, op.i))
         IN  /\ mem' = RemoteStore(pkt)
             /\ wire' = Append(wire, SendEvent(pkt))
             /\ hwPending' = HwAfterWrite(pkt)
    /\ op' = [op EXCEPT !.i = op.i + 1,
                        !.st = IF op.i + 1 = NativeCount(op.name) THEN "done" ELSE "send"]
    /\ UNCHANGED <<buildVars, relayVars, codec, alive, echo, stderr, nops, rx, faults, dbgVars, hwCounter, hwLog>>

\* wb_read8 / wb_read32 up to the wb_send; the answer is queued on the socket
NativeReadSend ==
    /\ alive
    /\ op.st = "send"
    /\ op.name \in ReadOps
    /\ \E stale \in StaleBufs :
         LET pkt == ReadPkt(stale, StrideAddr(op.addr, op.i))
         IN  /\ rx' = Append(rx, RemoteReply(pkt))
             /\ wire' = Append(wire, SendEvent(pkt))
             /\ op' = [op EXCEPT !.st = "recv", !.buf = pkt]
    /\ hwLog' = [hwLog EXCEPT !.late = @ \/ LateRead]
    /\ UNCHANGED <<buildVars, relayVars, codec, alive, echo, stderr, nops, mem, faults, dbgVars,
                   hwCounter, hwPending>>

ShortLens == {8}

\* the same, but the answer arrives cut short
NativeReadSendShort ==
    /\ alive
    /\ op.st = "send"
    /\ op.name \in ReadOps
    /\ faults < MaxFaults
    /\ faults' = faults + 1
    /\ \E stale \in StaleBufs, len \in ShortLens :
         LET pkt == ReadPkt(stale, StrideAddr(op.addr, op.i))
         IN  /\ rx' = Append(rx, Datagram(RemoteReply(pkt), len))
             /\ wire' = Append(wire, SendEvent(pkt))
             /\ op' = [op EXCEPT !.st = "recv", !.buf = pkt]
    /\ UNCHANGED <<buildVars, relayVars, codec, alive, echo, stderr, nops, mem, dbgVars, hwVars>>

\* the rest of wb_read8 / wb_read32 once wb_recv has returned count, and the
\* caller's loop step
NativeReadDone(count, buf) ==
    LET res  == DecodeNative(count, buf)
        acc  == Accumulate(op.name, op.acc, res.val, op.i)
        last == op.i + 1 = NativeCount(op.name)
    IN  /\ wire' = Append(wire, RecvEvent(count, res))
        /\ stderr' = stderr + (IF res.err THEN 1 ELSE 0)
        /\ op' = [op EXCEPT !.i = op.i + 1, !.acc = acc, !.buf = <<>>,
                            !.st = IF last THEN "done" ELSE "send",
                            !.ret = IF last THEN ReadResult(op.name, acc) ELSE <<>>,
                            !.clean = op.clean /\ ~res.err]

\* wb_recv returns the oldest datagram
NativeReadRecv ==
    /\ alive
    /\ op.st = "recv"
    /\ rx # <<>>
    /\ NativeReadDone(RecvCount(Head(rx), PKT_LEN), RecvInto(op.buf, Head(rx), PKT_LEN))
    /\ rx' = Tail(rx)
    /\ UNCHANGED <<buildVars, relayVars, codec, alive, echo, nops, mem, faults, dbgVars, hwVars>>

\* wb_recv fails: recvfrom returns -1 and leaves the buffer and the queue alone
NativeReadRecvError ==
    /\ alive
    /\ op.st = "recv"
    /\ faults < MaxFaults
    /\ faults' = faults + 1
    /\ NativeReadDone(-1, op.buf)
    /\ UNCHANGED <<buildVars, relayVars, codec, alive, echo, nops, rx, mem, dbgVars, hwVars>>

Init ==
    /\ hostBE \in BOOLEAN
    /\ width \in {8, 32}
    /\ target \in Addrs
    /\ codec = [fn |-> "none"]
    /\ alive = TRUE
    /\ op = NoOp
    /\ echo = NoEcho
    /\ rx = <<>>
    /\ mem = <<>>
    /\ wire = <<>>
    /\ stderr = 0
    /\ nops = 0
    /\ faults = 0
    /\ dbg = NoDebug
    /\ connected = TRUE
    /\ connCounter = AllOnes32
    /\ dropped = 0
    /\ hwCounter = Zero32
    /\ hwPending = 0
    /\ hwLog = NoHwLog
    /\ srv = NoSrv
    /\ peer = NoPeer

Next ==
    \/ Call
    \/ NativeWrite
    \/ NativeReadSend
    \/ NativeReadSendShort
    \/ NativeReadRecv
    \/ NativeReadRecvError

Spec == Init /\ [][Next]_vars

\* the datagram transport delivers the oldest queued reply a second time
NetDuplicate ==
    /\ alive
    /\ rx # <<>>
    /\ faults < MaxFaults
    /\ faults' = faults + 1
    /\ rx' = <<Head(rx)>> \o rx
    /\ UNCHANGED <<buildVars, relayVars, hostVars, codec, mem, dbgVars, hwVars>>

\* the adapter over a transport that duplicates, with every reply whole
NetNext ==
    \/ Call
    \/ NativeWrite
    \/ NativeReadSend
    \/ NativeReadRecv
    \/ NetDuplicate

SpecNet == Init /\ [][NetNext]_vars

\* the backing register of debug register addr 0 (CORE) or 4 (DATA)
BackingReg(addr) ==
    IF addr = 0 THEN CSR_CPU_OR_BRIDGE_DEBUG_CORE ELSE CSR_CPU_OR_BRIDGE_DEBUG_DATA

\* if (addr == 0) ... else if (addr == 4) ... else exit(1)
KnownDebugReg_any(addr) == TRUE

KnownDebugReg(addr) == addr = 0 \/ addr = 4

\* if ((counter - conn->counter) != 1) fprintf(stderr, "Dropped packet! ...")
DropCheck_never(counter) == 0

DropCheck_skiponly(counter) ==
    IF Sub32(counter, connCounter) \notin {Zero32, W32(0, 0, 0, 1)} THEN 1 ELSE 0

DropCheck_wide(counter) ==
    IF connCounter = AllOnes32 \/ Sub32(counter, connCounter) # W32(0, 0, 0, 1) THEN 1 ELSE 0

DropCheck(counter) == IF Sub32(counter, connCounter) # W32(0, 0, 0, 1) THEN 1 ELSE 0

\* while (riscv_debug_counter(conn) == counter)
PollAgain_once(polled, counter) == FALSE

PollAgain(polled, counter) == polled = counter

\* riscv_debug_read32: conn->counter = counter, the counter read before the
\* trigger and not the one the last poll returned
StoredCounter_latest(counter, polled) == polled

StoredCounter(counter, polled) == counter

\* the bridge calls a register-adapter function
DebugStartOp(name, a, v) ==
    /\ StartOp(name, a, v)
    /\ UNCHANGED <<buildVars, relayVars, codec, alive, nops, netVars>>

LogCall(name, a) == Append(dbg.calls, [name |-> name, addr |-> a])

AdapterIdle == op.st \in {"idle", "done"}

\* wb_connect: conn->counter = riscv_debug_counter(conn) - 1
ConnectSeed_same(counter) == counter

ConnectSeed(counter) == Sub32(counter, W32(0, 0, 0, 1))

Connect ==
    /\ alive
    /\ dbg.kind = "none" /\ dbg.phase = "idle"
    /\ ~connected
    /\ AdapterIdle
    /\ DebugStartOp("read32", CSR_CPU_OR_BRIDGE_DEBUG_PACKET_COUNTER, <<>>)
    /\ dbg' = [NoDebug EXCEPT !.kind = "connect", !.phase = "counter",
                              !.calls = <<[name |-> "read32", addr |-> CSR_CPU_OR_BRIDGE_DEBUG_PACKET_COUNTER]>>]
    /\ UNCHANGED <<connected, connCounter, dropped, hwVars>>

ConnectDone ==
    /\ alive
    /\ dbg.kind = "connect" /\ dbg.phase = "counter"
    /\ op.st = "done"
    /\ connCounter' = ConnectSeed(op.ret)
    /\ connected' = TRUE
    /\ dbg' = [dbg EXCEPT !.phase = "done", !.counter = op.ret, !.seen = op.ret]
    /\ UNCHANGED <<buildVars, relayVars, codec, hostVars, netVars, dropped, hwVars>>

\* the caller enters riscv_debug_write32: the counter is read first
DebugWriteCall ==
    /\ alive
    /\ connected
    /\ dbg.phase \in {"idle", "done"}
    /\ AdapterIdle
    /\ nops < MaxOps
    /\ nops' = nops + 1
    /\ StartOp("read32", CSR_CPU_OR_BRIDGE_DEBUG_PACKET_COUNTER, <<>>)
    /\ \E reg \in DebugRegs, value \in Vals :
         dbg' = [NoDebug EXCEPT !.kind = "write", !.reg = reg, !.value = value,
                                !.phase = "counter", !.prev = dbg.kind,
                                !.calls = <<[name |-> "read32", addr |-> CSR_CPU_OR_BRIDGE_DEBUG_PACKET_COUNTER]>>]
    /\ UNCHANGED <<buildVars, relayVars, codec, alive, netVars, connected, connCounter, dropped, hwVars>>

\* addr 0 or 4: the drop check, conn->counter = counter, the wb_write32
DebugWriteStore ==
    /\ alive
    /\ dbg.kind = "write" /\ dbg.phase = "counter"
    /\ op.st = "done"
    /\ KnownDebugReg(dbg.reg)
    /\ dropped' = dropped + DropCheck(op.ret)
    /\ connCounter' = op.ret
    /\ DebugStartOp("write32", BackingReg(dbg.reg), dbg.value)
    /\ dbg' = [dbg EXCEPT !.phase = "write", !.counter = op.ret, !.seen = op.ret,
                          !.calls = LogCall("write32", BackingReg(dbg.reg))]
    /\ UNCHANGED <<connected, hwVars>>

\* the wb_write32 is over: riscv_debug_write32 returns
DebugWriteReturn ==
    /\ alive
    /\ dbg.kind = "write" /\ dbg.phase = "write"
    /\ op.st = "done"
    /\ dbg' = [dbg EXCEPT !.phase = "done"]
    /\ UNCHANGED <<buildVars, relayVars, codec, hostVars, netVars, connected, connCounter, dropped, hwVars>>

\* any other addr: "Unknown riscv debug write address", exit(1)
DebugWriteExit ==
    /\ alive
    /\ dbg.kind = "write" /\ dbg.phase = "counter"
    /\ op.st = "done"
    /\ ~KnownDebugReg(dbg.reg)
    /\ alive' = FALSE
    /\ dbg' = [dbg EXCEPT !.phase = "exit", !.counter = op.ret, !.seen = op.ret]
    /\ UNCHANGED <<buildVars, relayVars, codec, op, echo, wire, stderr, nops, netVars,
                   connected, connCounter, dropped, hwVars>>

\* the caller enters riscv_debug_read32 with addr 0 or 4: the counter is read
DebugReadCall ==
    /\ alive
    /\ connected
    /\ dbg.phase \in {"idle", "done"}
    /\ AdapterIdle
    /\ nops < MaxOps
    /\ nops' = nops + 1
    /\ \E reg \in DebugRegs :
         /\ KnownDebugReg(reg)
         /\ dbg' = [NoDebug EXCEPT !.kind = "read", !.reg = reg, !.phase = "counter", !.prev = dbg.kind,
                                   !.calls = <<[name |-> "read32", addr |-> CSR_CPU_OR_BRIDGE_DEBUG_PACKET_COUNTER]>>]
    /\ StartOp("read32", CSR_CPU_OR_BRIDGE_DEBUG_PACKET_COUNTER, <<>>)
    /\ UNCHANGED <<buildVars, relayVars, codec, alive, netVars, connected, connCounter, dropped, hwVars>>

\* any other addr: "Unknown riscv debug read address", exit(1), before any
\* bus access
DebugReadExit ==
    /\ alive
    /\ connected
    /\ dbg.phase \in {"idle", "done"}
    /\ AdapterIdle
    /\ nops < MaxOps
    /\ nops' = nops + 1
    /\ \E reg \in DebugRegs :
         /\ ~KnownDebugReg(reg)
         /\ dbg' = [NoDebug EXCEPT !.kind = "read", !.reg = reg, !.phase = "exit", !.prev = dbg.kind]
    /\ alive' = FALSE
    /\ UNCHANGED <<buildVars, relayVars, codec, op, echo, wire, stderr, netVars,
                   connected, connCounter, dropped, hwVars>>

\* wb_write8(conn, CSR_CPU_OR_BRIDGE_DEBUG_SYNC, 0x00 or 0x04)
DebugReadSync ==
    /\ alive
    /\ dbg.kind = "read" /\ dbg.phase = "counter"
    /\ op.st = "done"
    /\ DebugStartOp("write8", CSR_CPU_OR_BRIDGE_DEBUG_SYNC, <<dbg.reg>>)
    /\ dbg' = [dbg EXCEPT !.phase = "sync", !.counter = op.ret, !.seen = op.ret,
                          !.calls = LogCall("write8", CSR_CPU_OR_BRIDGE_DEBUG_SYNC)]
    /\ UNCHANGED <<connected, connCounter, dropped, hwVars>>

\* while (riscv_debug_counter(conn) == counter) loops++: the first poll, and
\* each further poll after one that returned the same counter
DebugReadPoll ==
    /\ alive
    /\ dbg.kind = "read"
    /\ op.st = "done"
    /\ \/ dbg.phase = "sync" /\ dbg' = [dbg EXCEPT !.phase = "poll",
                                              !.calls = LogCall("read32", CSR_CPU_OR_BRIDGE_DEBUG_PACKET_COUNTER)]
       \/ /\ dbg.phase = "poll"
          /\ PollAgain(op.ret, dbg.counter)
          /\ dbg' = [dbg EXCEPT !.seen = op.ret,
                                !.loops = IF dbg.loops < MaxLoops THEN dbg.loops + 1 ELSE dbg.loops,
                                !.calls = IF dbg.loops < MaxLoops
                                          THEN LogCall("read32", CSR_CPU_OR_BRIDGE_DEBUG_PACKET_COUNTER)
                                          ELSE dbg.calls]
    /\ DebugStartOp("read32", CSR_CPU_OR_BRIDGE_DEBUG_PACKET_COUNTER, <<>>)
    /\ UNCHANGED <<connected, connCounter, dropped, hwVars>>

\* the counter has changed: value = wb_read32(conn, backing register)
DebugReadValue ==
    /\ alive
    /\ dbg.kind = "read" /\ dbg.phase = "poll"
    /\ op.st = "done"
    /\ ~PollAgain(op.ret, dbg.counter)
    /\ DebugStartOp("read32", BackingReg(dbg.reg), <<>>)
    /\ dbg' = [dbg EXCEPT !.phase = "value", !.seen = op.ret, !.calls = LogCall("read32", BackingReg(dbg.reg))]
    /\ UNCHANGED <<connected, connCounter, dropped, hwVars>>

\* the drop check with the counter read before the trigger, conn->counter =
\* counter, return value
DebugReadReturn ==
    /\ alive
    /\ dbg.kind = "read" /\ dbg.phase = "value"
    /\ op.st = "done"
    /\ dropped' = dropped + DropCheck(dbg.counter)
    /\ connCounter' = StoredCounter(dbg.counter, dbg.seen)
    /\ dbg' = [dbg EXCEPT !.phase = "done", !.ret = op.ret]
    /\ UNCHANGED <<buildVars, relayVars, codec, hostVars, netVars, connected, hwVars>>

\* the remote end completes one debug-bus transaction: the packet counter
\* advances by one
HwDebugDone ==
    /\ hwPending > 0
    /\ hwPending' = hwPending - 1
    /\ hwCounter' = Add32(hwCounter, 1)
    /\ UNCHANGED <<buildVars, relayVars, codec, hostVars, netVars, dbgVars, hwLog>>

\* a debug-bus transaction that is not this program's: the counter skips one
\* between two calls of the bridge
HwForeign ==
    /\ connected
    /\ dbg.phase \in {"idle", "done"}
    /\ hwLog.skips < MaxSkips
    /\ hwCounter' = Add32(hwCounter, 1)
    /\ hwLog' = [hwLog EXCEPT !.skips = @ + 1, !.skipAt = nops]
    /\ UNCHANGED <<buildVars, relayVars, codec, hostVars, netVars, dbgVars, hwPending>>

\* wb_send of a write whose datagram never arrives: nothing is stored and
\* nothing is triggered, and this end cannot tell
NativeWriteLost ==
    /\ alive
    /\ op.st = "send"
    /\ op.name \in WriteOps
    /\ hwLog.lost < MaxLost
    /\ \E stale \in StaleBufs :
         LET pkt == WritePkt(stale, StrideAddr(op.addr, op.i), NativeWriteVal(op.name, op.val, op.i))
             trigger == HwTrigger(WireField(pkt, 12))
         IN  /\ wire' = Append(wire, SendEvent(pkt))
             /\ hwLog' = [hwLog EXCEPT !.lost = @ + 1,
                                       !.lostAt = IF trigger THEN nops ELSE @,
                                       !.lostSync = @ \/ (trigger /\ dbg.kind = "read")]
    /\ op' = [op EXCEPT !.i = op.i + 1,
                        !.st = IF op.i + 1 = NativeCount(op.name) THEN "done" ELSE "send"]
    /\ UNCHANGED <<buildVars, relayVars, codec, alive, echo, stderr, nops, netVars, dbgVars,
                   hwCounter, hwPending>>

HwCounters == {Zero32, W32(0, 0, 0, 255)}

DebugInit ==
    /\ hostBE \in BOOLEAN
    /\ width \in {8, 32}
    /\ target = Zero32
    /\ codec = [fn |-> "none"]
    /\ alive = TRUE
    /\ op = NoOp
    /\ echo = NoEcho
    /\ rx = <<>>
    /\ mem = <<>>
    /\ wire = <<>>
    /\ stderr = 0
    /\ nops = 0
    /\ faults = 0
    /\ dbg = NoDebug
    /\ connected = FALSE
    /\ connCounter = Zero32
    /\ dropped = 0
    /\ hwCounter \in HwCounters
    /\ hwPending = 0
    /\ hwLog = NoHwLog
    /\ srv = NoSrv
    /\ peer = NoPeer

\* the bridge over a link that delivers every reply whole
DebugNext ==
    \/ Connect
    \/ ConnectDone
    \/ DebugWriteCall
    \/ DebugWriteStore
    \/ DebugWriteReturn
    \/ DebugWriteExit
    \/ DebugReadCall
    \/ DebugReadExit
    \/ DebugReadSync
    \/ DebugReadPoll
    \/ DebugReadValue
    \/ DebugReadReturn
    \/ HwDebugDone
    \/ NativeWrite
    \/ NativeReadSend
    \/ NativeReadRecv

SpecDebug == DebugInit /\ [][DebugNext]_vars

\* the bridge beside a counter that someone else can advance
DebugSkipNext ==
    \/ DebugNext
    \/ HwForeign

SpecDebugSkip == DebugInit /\ [][DebugSkipNext]_vars

\* the bridge over a link that can lose a write, with a program that keeps
\* running, a caller that keeps calling and a remote end that completes what
\* it was triggered to do
DebugLossNext ==
    \/ DebugNext
    \/ NativeWriteLost

SpecDebugLoss ==
    DebugInit /\ [][DebugLossNext]_vars /\ WF_vars(DebugLossNext) /\ WF_vars(HwDebugDone)

\* ------------------------------------------- the valid/ready debug bus
\* the earlier bridge: a command is laid out in payload registers and handed
\* over with command-valid; the registers of that build's generated header
CSR_CPU_OR_BRIDGE_I_DEBUG_BUS_CMD_VALID_ADDR == W32(224, 0, 112, 0)

CSR_CPU_OR_BRIDGE_I_DEBUG_BUS_CMD_PAYLOAD_WR_ADDR == W32(224, 0, 112, 16)

CSR_CPU_OR_BRIDGE_I_DEBUG_BUS_CMD_PAYLOAD_ADDRESS_ADDR == W32(224, 0, 112, 32)

CSR_CPU_OR_BRIDGE_I_DEBUG_BUS_CMD_PAYLOAD_DATA_ADDR == W32(224, 0, 112, 48)

CSR_CPU_OR_BRIDGE_O_DEBUG_BUS_CMD_READY_ADDR == W32(224, 0, 112, 64)

CSR_CPU_OR_BRIDGE_O_DEBUG_BUS_RSP_DATA_ADDR == W32(224, 0, 112, 80)

\* riscv_debug_write32 / riscv_debug_read32 with the read-back of the data
\* register, and riscv_write32 / riscv_read32 without it
VrWrites == {"riscv_debug_write32", "riscv_write32"}

VrReads == {"riscv_debug_read32", "riscv_read32"}

VrCallRec(name, a, v) == [name |-> name, addr |-> a, val |-> v]

\* the adapter calls of an access up to its wb_write8(conn, ..._CMD_VALID_ADDR, 1)
VrSteps(kind, reg, value) ==
    LET wr   == IF kind \in VrWrites THEN 1 ELSE 0
        head == <<VrCallRec("write8", CSR_CPU_OR_BRIDGE_I_DEBUG_BUS_CMD_VALID_ADDR, <<0>>),
                  VrCallRec("write8", CSR_CPU_OR_BRIDGE_I_DEBUG_BUS_CMD_PAYLOAD_WR_ADDR, <<wr>>),
                  VrCallRec("write8", CSR_CPU_OR_BRIDGE_I_DEBUG_BUS_CMD_PAYLOAD_ADDRESS_ADDR, <<reg>>)>>
        data == <<VrCallRec("write32", CSR_CPU_OR_BRIDGE_I_DEBUG_BUS_CMD_PAYLOAD_DATA_ADDR,
                            IF kind \in VrWrites THEN value ELSE Zero32)>>
        back == <<VrCallRec("read32", CSR_CPU_OR_BRIDGE_I_DEBUG_BUS_CMD_PAYLOAD_DATA_ADDR, <<>>)>>
        last == <<VrCallRec("write8", CSR_CPU_OR_BRIDGE_I_DEBUG_BUS_CMD_VALID_ADDR, <<1>>)>>
    IN  CASE kind = "riscv_debug_write32" -> head \o data \o back \o last
          [] kind = "riscv_debug_read32" -> head \o data \o back \o last
          [] kind = "riscv_write32" -> head \o data \o last
          [] kind = "riscv_read32" -> head \o last

\* while (!(wb_read8(conn, ..._CMD_READY_ADDR) & 1)) in riscv_debug_read32,
\* while (!wb_read8(conn, ..._CMD_READY_ADDR)) in riscv_read32
VrReady_any(kind, ready) == TRUE

VrReady(kind, ready) ==
    IF kind = "riscv_debug_read32" THEN ready[1] % 2 = 1 ELSE ready # <<0>>

\* the caller enters one of the four functions: its first adapter call
VrCall ==
    /\ alive
    /\ dbg.phase \in {"idle", "done"}
    /\ AdapterIdle
    /\ nops < MaxOps
    /\ nops' = nops + 1
    /\ \E kind \in VrWrites \cup VrReads, reg \in {0, 4}, value \in Vals :
         LET step == VrSteps(kind, reg, value)[1]
         IN  /\ StartOp(step.name, step.addr, step.val)
             /\ dbg' = [NoDebug EXCEPT !.kind = kind, !.reg = reg, !.value = value,
                                       !.phase = "cmd", !.prev = dbg.kind,
                                       !.calls = <<[name |-> step.name, addr |-> step.addr]>>]
    /\ UNCHANGED <<buildVars, relayVars, codec, alive, netVars, connected, connCounter, dropped, hwVars>>

\* the next adapter call of the access
VrStep ==
    /\ alive
    /\ dbg.kind \in VrWrites \cup VrReads /\ dbg.phase = "cmd"
    /\ op.st = "done"
    /\ Len(dbg.calls) < Len(VrSteps(dbg.kind, dbg.reg, dbg.value))
    /\ LET step == VrSteps(dbg.kind, dbg.reg, dbg.value)[Len(dbg.calls) + 1]
       IN  /\ DebugStartOp(step.name, step.addr, step.val)
           /\ dbg' = [dbg EXCEPT !.calls = LogCall(step.name, step.addr)]
    /\ UNCHANGED <<connected, connCounter, dropped, hwVars>>

\* a write access returns after its last adapter call
VrWriteReturn ==
    /\ alive
    /\ dbg.kind \in VrWrites /\ dbg.phase = "cmd"
    /\ op.st = "done"
    /\ Len(dbg.calls) = Len(VrSteps(dbg.kind, dbg.reg, dbg.value))
    /\ dbg' = [dbg EXCEPT !.phase = "done"]
    /\ UNCHANGED <<buildVars, relayVars, codec, hostVars, netVars, connected, connCounter, dropped, hwVars>>

\* a read access polls the ready register: the first poll, and each further
\* poll after one that did not end the loop
VrPoll ==
    /\ alive
    /\ dbg.kind \in VrReads
    /\ op.st = "done"
    /\ \/ /\ dbg.phase = "cmd"
          /\ Len(dbg.calls) = Len(VrSteps(dbg.kind, dbg.reg, dbg.value))
          /\ dbg' = [dbg EXCEPT !.phase = "poll",
                                !.calls = LogCall("read8", CSR_CPU_OR_BRIDGE_O_DEBUG_BUS_CMD_READY_ADDR)]
       \/ /\ dbg.phase = "poll"
          /\ ~VrReady(dbg.kind, op.ret)
          /\ dbg' = [dbg EXCEPT !.seen = op.ret,
                                !.loops = IF dbg.loops < MaxLoops THEN dbg.loops + 1 ELSE dbg.loops,
                                !.calls = IF dbg.loops < MaxLoops
                                          THEN LogCall("read8", CSR_CPU_OR_BRIDGE_O_DEBUG_BUS_CMD_READY_ADDR)
                                          ELSE dbg.calls]
    /\ DebugStartOp("read8", CSR_CPU_OR_BRIDGE_O_DEBUG_BUS_CMD_READY_ADDR, <<>>)
    /\ UNCHANGED <<connected, connCounter, dropped, hwVars>>

\* the loop is over: wb_read32(conn, ..._RSP_DATA_ADDR)
VrValue ==
    /\ alive
    /\ dbg.kind \in VrReads /\ dbg.phase = "poll"
    /\ op.st = "done"
    /\ VrReady(dbg.kind, op.ret)
    /\ DebugStartOp("read32", CSR_CPU_OR_BRIDGE_O_DEBUG_BUS_RSP_DATA_ADDR, <<>>)
    /\ dbg' = [dbg EXCEPT !.phase = "value", !.seen = op.ret,
                          !.calls = LogCall("read32", CSR_CPU_OR_BRIDGE_O_DEBUG_BUS_RSP_DATA_ADDR)]
    /\ UNCHANGED <<connected, connCounter, dropped, hwVars>>

\* return wb_read32(...)
VrReturn ==
    /\ alive
    /\ dbg.kind \in VrReads /\ dbg.phase = "value"
    /\ op.st = "done"
    /\ dbg' = [dbg EXCEPT !.phase = "done", !.ret = op.ret]
    /\ UNCHANGED <<buildVars, relayVars, codec, hostVars, netVars, connected, connCounter, dropped, hwVars>>

\* the remote end: with command-valid at 1 it takes the command and raises
\* ready; with command-valid back at 0 it may lower ready again
HwVrRespond ==
    /\ \/ /\ MemRead(CSR_CPU_OR_BRIDGE_I_DEBUG_BUS_CMD_VALID_ADDR) = W32(0, 0, 0, 1)
          /\ MemRead(CSR_CPU_OR_BRIDGE_O_DEBUG_BUS_CMD_READY_ADDR) = Zero32
          /\ mem' = MemWrite(CSR_CPU_OR_BRIDGE_O_DEBUG_BUS_CMD_READY_ADDR, W32(0, 0, 0, 1))
       \/ /\ MemRead(CSR_CPU_OR_BRIDGE_I_DEBUG_BUS_CMD_VALID_ADDR) = Zero32
          /\ MemRead(CSR_CPU_OR_BRIDGE_O_DEBUG_BUS_CMD_READY_ADDR) = W32(0, 0, 0, 1)
          /\ mem' = MemWrite(CSR_CPU_OR_BRIDGE_O_DEBUG_BUS_CMD_READY_ADDR, Zero32)
    /\ UNCHANGED <<buildVars, relayVars, codec, hostVars, rx, faults, dbgVars, hwVars>>

VrNext ==
    \/ VrCall
    \/ VrStep
    \/ VrWriteReturn
    \/ VrPoll
    \/ VrValue
    \/ VrReturn
    \/ HwVrRespond
    \/ NativeWrite
    \/ NativeReadSend
    \/ NativeReadRecv

SpecVr == Init /\ [][VrNext]_vars

\* uint32_t resp; read before anything was assigned to it: whatever the
\* stack holds, the value of the previous round among the rest
StaleWords == {Zero32, W32(222, 173, 190, 239), srv.resp}

\* the switch on req->size in the register branch
WriteName(size) == CASE size = 0 -> "write8" [] size = 1 -> "write16" [] OTHER -> "write32"

ReadName(size) == CASE size = 0 -> "read8" [] size = 1 -> "read16" [] OTHER -> "read32"

\* a client connects; the kernel keeps it waiting until accept takes it
ClientConnect ==
    /\ peer.clients < MaxClients
    /\ peer' = [peer EXCEPT !.clients = @ + 1, !.waiting = @ + 1]
    /\ UNCHANGED <<buildVars, codec, hostVars, netVars, dbgVars, hwVars, srv>>

\* if (server.connect_fd <= 0)
NeedAccept_always == TRUE

NeedAccept == srv.connect_fd <= 0

\* vrv_accept: blocks until a client is waiting
RelayAccept ==
    /\ alive
    /\ srv.pc = "top"
    /\ NeedAccept
    /\ peer.waiting > 0
    /\ LET fd == peer.clients - peer.waiting + 1
       IN  /\ srv' = [srv EXCEPT !.pc = "read", !.connect_fd = fd, !.last = "accept"]
           /\ peer' = [peer EXCEPT !.waiting = @ - 1, !.open = @ \cup {fd}, !.got = 0]
    /\ UNCHANGED <<buildVars, codec, hostVars, netVars, dbgVars, hwVars>>

\* the loop has got to vrv_read
AtRead_early == srv.pc \in {"read", "busy"} \/ (srv.pc = "top" /\ ~NeedAccept)

AtRead == srv.pc = "read" \/ (srv.pc = "top" /\ ~NeedAccept)

\* vrv_shutdown: shutdown(connect_fd), connect_fd = 0
vrv_shutdown_keep(fd) == fd

vrv_shutdown(fd) == 0

\* vrv_read returns 0: the client has gone
RelayReadEof ==
    /\ alive
    /\ AtRead
    /\ srv' = [srv EXCEPT !.pc = "top", !.connect_fd = vrv_shutdown(srv.connect_fd),
                          !.last = "eof", !.n = 0, !.replied = FALSE, !.reply = <<>>]
    /\ peer' = [peer EXCEPT !.open = @ \ {srv.connect_fd}]
    /\ UNCHANGED <<buildVars, codec, hostVars, netVars, dbgVars, hwVars>>

\* vrv_read returns some other count than 10: "Unrecognized read size", continue
ShortReadStep_close(n) ==
    /\ srv' = [srv EXCEPT !.pc = "top", !.connect_fd = 0,
                          !.last = "short", !.n = n, !.replied = FALSE, !.reply = <<>>]
    /\ peer' = [peer EXCEPT !.shorts = @ + 1, !.open = @ \ {srv.connect_fd}]

ShortReadStep(n) ==
    /\ srv' = [srv EXCEPT !.pc = "top", !.last = "short", !.n = n,
                          !.replied = FALSE, !.reply = <<>>]
    /\ peer' = [peer EXCEPT !.shorts = @ + 1]

RelayReadShort ==
    /\ alive
    /\ AtRead
    /\ peer.shorts < MaxShort
    /\ \E n \in ShortReads : ShortReadStep(n)
    /\ UNCHANGED <<buildVars, codec, hostVars, netVars, dbgVars, hwVars>>

\* if (vrv_read_size <= 0) on the size_t that vrv_read returns: a count of 0
\* only, read's -1 having become SIZE_MAX
ReadGone_signed(ret) == ret <= 0

ReadGone(ret) == ret = 0

\* vrv_read fails: read returns -1
RelayReadError ==
    /\ alive
    /\ AtRead
    /\ peer.shorts < MaxShort
    /\ IF ReadGone(-1)
       THEN /\ srv' = [srv EXCEPT !.pc = "top", !.connect_fd = vrv_shutdown(srv.connect_fd),
                                  !.last = "eof", !.n = -1, !.replied = FALSE, !.reply = <<>>]
            /\ peer' = [peer EXCEPT !.shorts = @ + 1, !.open = @ \ {srv.connect_fd}]
       ELSE ShortReadStep(-1)
    /\ UNCHANGED <<buildVars, codec, hostVars, netVars, dbgVars, hwVars>>

\* where the dispatch sends a 10-byte request: to the debug bridge, to the
\* register adapter, or nowhere (a line on stderr)
Route(req) ==
    IF InWindow(req.address)
    THEN (IF req.readwrite \in {VRV_RW_READ, VRV_RW_WRITE} /\ req.size = 2 THEN "debug" ELSE "drop")
    ELSE (IF req.readwrite \in {VRV_RW_READ, VRV_RW_WRITE} /\ req.size \in {0, 1, 2}
          THEN "adapter" ELSE "drop")

\* if (req->readwrite == VRV_RW_READ) vrv_write(&server, &resp, sizeof(resp))
Replies_always(req) == TRUE

Replies(req) == req.readwrite = VRV_RW_READ

\* the end of a round: the reply, if any, and back to the top of the loop
EndRound(req, route, resp) ==
    /\ srv' = [srv EXCEPT !.pc = "top", !.req = req, !.route = route, !.resp = resp,
                          !.last = "req", !.n = REQ_LEN, !.replied = Replies(req),
                          !.reply = IF Replies(req) THEN MemBytes(resp) ELSE <<>>]
    /\ peer' = [peer EXCEPT !.got = @ + (IF Replies(req) THEN 1 ELSE 0),
                            !.reqs = @ + (IF srv.pc = "busy" THEN 0 ELSE 1)]

\* a round that is waiting for the bridge or the adapter to return
BeginRound(req, route) ==
    /\ srv' = [srv EXCEPT !.pc = "busy", !.req = req, !.route = route,
                          !.last = "req", !.n = REQ_LEN, !.replied = FALSE, !.reply = <<>>]
    /\ peer' = [peer EXCEPT !.reqs = @ + 1]

\* a request nothing is done for; resp is sent as it is if the request
\* names a read
RelayDrop ==
    /\ alive
    /\ AtRead
    /\ peer.reqs < MaxReqs
    /\ \E r \in Requests, stale \in StaleWords :
         LET req == ReqOf(ReqBytes(r))
         IN  /\ Route(req) = "drop"
             /\ EndRound(req, "drop", IF Replies(req) THEN stale ELSE srv.resp)
    /\ UNCHANGED <<buildVars, codec, hostVars, netVars, dbgVars, hwVars>>

\* outside the window: wb_write8/16/32 or wb_read8/16/32 at req->address
RelayAdapter ==
    /\ alive
    /\ AtRead
    /\ peer.reqs < MaxReqs
    /\ \E r \in Requests :
         LET req == ReqOf(ReqBytes(r))
         IN  /\ Route(req) = "adapter"
             /\ BeginRound(req, "adapter")
             /\ IF req.readwrite = VRV_RW_WRITE
                THEN StartOp(WriteName(req.size), req.address,
                             Truncate(req.data, OpBytes(WriteName(req.size))))
                ELSE StartOp(ReadName(req.size), req.address, <<>>)
    /\ UNCHANGED <<buildVars, codec, alive, nops, netVars, dbgVars, hwVars>>

\* what riscv_debug_read32 / riscv_debug_write32 start from
DebugCallRec(kind, reg, value) ==
    [NoDebug EXCEPT !.kind = kind, !.reg = reg, !.value = value, !.phase = "counter",
                    !.prev = dbg.kind,
                    !.calls = <<[name |-> "read32", addr |-> CSR_CPU_OR_BRIDGE_DEBUG_PACKET_COUNTER]>>]

\* in the window, 32 bits, write: riscv_debug_write32(&conn, req->address, req->data)
RelayDebugWrite ==
    /\ alive
    /\ AtRead
    /\ peer.reqs < MaxReqs
    /\ \E r \in Requests :
         LET req == ReqOf(ReqBytes(r))
         IN  /\ Route(req) = "debug"
             /\ req.readwrite = VRV_RW_WRITE
             /\ BeginRound(req, "debug")
             /\ dbg' = DebugCallRec("write", WindowReg(req.address), req.data)
    /\ StartOp("read32", CSR_CPU_OR_BRIDGE_DEBUG_PACKET_COUNTER, <<>>)
    /\ UNCHANGED <<buildVars, codec, alive, nops, netVars, connected, connCounter, dropped, hwVars>>

\* in the window, 32 bits, read: resp = riscv_debug_read32(&conn, req->address)
RelayDebugRead ==
    /\ alive
    /\ AtRead
    /\ peer.reqs < MaxReqs
    /\ \E r \in Requests :
         LET req == ReqOf(ReqBytes(r))
         IN  /\ Route(req) = "debug"
             /\ req.readwrite = VRV_RW_READ
             /\ KnownDebugReg(WindowReg(req.address))
             /\ BeginRound(req, "debug")
             /\ dbg' = DebugCallRec("read", WindowReg(req.address), Zero32)
    /\ StartOp("read32", CSR_CPU_OR_BRIDGE_DEBUG_PACKET_COUNTER, <<>>)
    /\ UNCHANGED <<buildVars, codec, alive, nops, netVars, connected, connCounter, dropped, hwVars>>

\* the same with an offset that is not a register: exit(1) inside the bridge
RelayDebugReadExit ==
    /\ alive
    /\ AtRead
    /\ peer.reqs < MaxReqs
    /\ \E r \in Requests :
         LET req == ReqOf(ReqBytes(r))
         IN  /\ Route(req) = "debug"
             /\ req.readwrite = VRV_RW_READ
             /\ ~KnownDebugReg(WindowReg(req.address))
             /\ BeginRound(req, "debug")
             /\ dbg' = [NoDebug EXCEPT !.kind = "read", !.reg = WindowReg(req.address),
                                       !.phase = "exit", !.prev = dbg.kind]
    /\ alive' = FALSE
    /\ UNCHANGED <<buildVars, codec, op, echo, wire, stderr, nops, netVars,
                   connected, connCounter, dropped, hwVars>>

\* the bridge or the adapter has returned: resp is assigned by a read, and
\* the reply is sent if the request names a read
RelayFinish ==
    /\ alive
    /\ srv.pc = "busy"
    /\ \/ srv.route = "adapter" /\ op.st = "done"
       \/ srv.route = "debug" /\ dbg.phase = "done"
    /\ EndRound(srv.req, srv.route,
                IF srv.req.readwrite # VRV_RW_READ THEN srv.resp
                ELSE IF srv.route = "debug" THEN dbg.ret
                ELSE ZeroExtend(op.ret, 4))
    /\ UNCHANGED <<buildVars, codec, hostVars, netVars, dbgVars, hwVars>>

\* main after wb_connect: the relay loop, no client yet
RelayInit ==
    /\ hostBE \in BOOLEAN
    /\ width \in {8, 32}
    /\ target = Zero32
    /\ codec = [fn |-> "none"]
    /\ alive = TRUE
    /\ op = NoOp
    /\ echo = NoEcho
    /\ rx = <<>>
    /\ mem = <<>>
    /\ wire = <<>>
    /\ stderr = 0
    /\ nops = 0
    /\ faults = 0
    /\ dbg = NoDebug
    /\ connected = TRUE
    /\ hwCounter = W32(0, 0, 0, 255)
    /\ connCounter = ConnectSeed(hwCounter)
    /\ dropped = 0
    /\ hwPending = 0
    /\ hwLog = NoHwLog
    /\ srv = NoSrv
    /\ peer = NoPeer

\* --------------------------------------------------------------- start-up
\* what wb_connect returns when a socket call or getaddrinfo fails
ConnectErrors == {10, 11, 1, 2}

\* the register main reads before the loop: wb_read16(&conn, 0xe0005800)
TEMPERATURE_ADDR == W32(224, 0, 88, 0)

\* if (wb_connect(&conn, "10.0.11.2", "1234") != 0) return 1
MainGivesUp_never(err) == FALSE

MainGivesUp(err) == err # 0

\* wb_connect returns before it has set up conn: "Unable to create
\* connection", main returns 1
BootConnectFail ==
    /\ alive
    /\ srv.pc = "boot"
    /\ ~connected
    /\ dbg.kind = "none"
    /\ \E err \in ConnectErrors :
         IF MainGivesUp(err)
         THEN /\ alive' = FALSE
              /\ srv' = [srv EXCEPT !.pc = "failed", !.err = err]
              /\ UNCHANGED connected
         ELSE /\ alive' = alive
              /\ srv' = [srv EXCEPT !.pc = "top", !.err = err]
              /\ connected' = TRUE
    /\ UNCHANGED <<buildVars, codec, op, echo, wire, stderr, nops, netVars, dbg, connCounter,
                   dropped, hwVars, peer>>

\* wb_connect has returned 0: the temperature is read
BootTemperature ==
    /\ alive
    /\ srv.pc = "boot"
    /\ connected
    /\ dbg.kind = "connect" /\ dbg.phase = "done"
    /\ StartOp("read16", TEMPERATURE_ADDR, <<>>)
    /\ srv' = [srv EXCEPT !.pc = "temp"]
    /\ UNCHANGED <<buildVars, codec, alive, nops, netVars, dbgVars, hwVars, peer>>

\* the temperature is printed: main enters while (1)
BootLoop ==
    /\ alive
    /\ srv.pc = "temp"
    /\ op.st = "done"
    /\ srv' = [srv EXCEPT !.pc = "top"]
    /\ UNCHANGED <<buildVars, codec, hostVars, netVars, dbgVars, hwVars, peer>>

\* main from wb_connect on; the listening socket is there, clients may connect
BootInit ==
    /\ hostBE \in BOOLEAN
    /\ width \in {8, 32}
    /\ target = Zero32
    /\ codec = [fn |-> "none"]
    /\ alive = TRUE
    /\ op = NoOp
    /\ echo = NoEcho
    /\ rx = <<>>
    /\ mem = <<>>
    /\ wire = <<>>
    /\ stderr = 0
    /\ nops = 0
    /\ faults = 0
    /\ dbg = NoDebug
    /\ connected = FALSE
    /\ connCounter = Zero32
    /\ dropped = 0
    /\ hwCounter = W32(0, 0, 0, 255)
    /\ hwPending = 0
    /\ hwLog = NoHwLog
    /\ srv = [NoSrv EXCEPT !.pc = "boot"]
    /\ peer = NoPeer

RelayNext ==
    \/ ClientConnect
    \/ RelayAccept
    \/ RelayReadEof
    \/ RelayReadShort
    \/ RelayDrop
    \/ RelayAdapter
    \/ RelayDebugWrite
    \/ RelayDebugRead
    \/ RelayDebugReadExit
    \/ RelayFinish
    \/ DebugWriteStore
    \/ DebugWriteReturn
    \/ DebugWriteExit
    \/ DebugReadSync
    \/ DebugReadPoll
    \/ DebugReadValue
    \/ DebugReadReturn
    \/ HwDebugDone
    \/ NativeWrite
    \/ NativeReadSend
    \/ NativeReadRecv

SpecRelay == RelayInit /\ [][RelayNext]_vars

\* the relay's accept and read steps with a client whose connection can fail
RelayErrNext ==
    \/ ClientConnect
    \/ RelayAccept
    \/ RelayReadEof
    \/ RelayReadShort
    \/ RelayReadError
    \/ RelayDrop

SpecRelayErr == RelayInit /\ [][RelayErrNext]_vars

\* the relay serving debug reads over a link that can lose a write, with a
\* program that keeps running and a remote end that completes what it was
\* triggered to do
RelayPollNext ==
    \/ ClientConnect
    \/ RelayAccept
    \/ RelayDebugRead
    \/ RelayFinish
    \/ DebugReadSync
    \/ DebugReadPoll
    \/ DebugReadValue
    \/ DebugReadReturn
    \/ HwDebugDone
    \/ NativeWrite
    \/ NativeWriteLost
    \/ NativeReadSend
    \/ NativeReadRecv

SpecRelayPoll ==
    RelayInit /\ [][RelayPollNext]_vars /\ WF_vars(RelayPollNext) /\ WF_vars(HwDebugDone)

BootNext ==
    \/ BootConnectFail
    \/ Connect
    \/ ConnectDone
    \/ BootTemperature
    \/ BootLoop
    \/ RelayNext

SpecBoot == BootInit /\ [][BootNext]_vars

\* ---------------------------------------------------------------- claims
\* the bytes of a word in big-endian order, most significant first
BigEndian(w) == [k \in 1..Len(w) |-> w[Len(w) + 1 - k]]

Bytes(buf, from, to) == [k \in 1..(to - from + 1) |-> buf[from + k]]

Sends == SelectSeq(wire, LAMBDA e : e.ev = "send")

Recvs == SelectSeq(wire, LAMBDA e : e.ev = "recv")

\* C1: against a remote end that stores writes and answers reads with what it
\* stored, and with no reply cut short and no failed receive, read32(A) right
\* after write32(A, V) returns V, in byte-native and in word-native mode.
C1_WriteReadRoundTrip ==
    (op.name = "read32" /\ op.st = "done" /\ echo.set /\ echo.addr = op.addr /\ faults = 0)
        => op.ret = echo.val

C1_Witness ==
    /\ op.name = "read32" /\ op.st = "done" /\ echo.set /\ echo.addr = op.addr /\ faults = 0
    /\ width = 8
    /\ op.addr = W32(16, 0, 0, 0)
    /\ op.ret = W32(18, 52, 86, 120)

\* C2: an encoded write is 20 bytes: 4E 6F 10 44, four zero bytes, write-count
\* 1 and read-count 0 in bytes 10 and 11, the address big-endian in bytes
\* 12..15 and the value big-endian in bytes 16..19 (wb_write8 encodes the
\* value's low byte zero-extended).
C2_EncodeWriteLayout ==
    codec.fn \in {"eb_fill_write32", "wb_write32", "wb_write8"} =>
        /\ Len(codec.out) = 20
        /\ Bytes(codec.out, 0, 7) = <<78, 111, 16, 68, 0, 0, 0, 0>>
        /\ codec.out[11] = 1
        /\ codec.out[12] = 0
        /\ Bytes(codec.out, 12, 15) = BigEndian(codec.address)
        /\ Bytes(codec.out, 16, 19) =
             IF codec.fn = "wb_write8" THEN <<0, 0, 0, codec.data[1]>>
             ELSE BigEndian(codec.data)

C2_Witness ==
    /\ codec.fn = "wb_write32"
    /\ ~hostBE
    /\ codec.address = W32(16, 0, 0, 0)
    /\ codec.data = W32(18, 52, 86, 120)
    /\ Bytes(codec.out, 12, 19) = <<16, 0, 0, 0, 18, 52, 86, 120>>

\* C3: an encoded read carries the address big-endian in the value field
\* (bytes 16..19) with write-count 0 and read-count 1, and the value a read
\* returns is bytes 16..19 of the 20-byte reply read big-endian.
C3_ReadUsesValueField ==
    /\ codec.fn \in {"eb_fill_read32", "wb_read32"} =>
          /\ Len(codec.out) = 20
          /\ codec.out[11] = 0
          /\ codec.out[12] = 1
          /\ Bytes(codec.out, 16, 19) = BigEndian(codec.address)
    /\ (codec.fn \in {"decode_wb", "eb_unfill_read32"} /\ codec.count = 20) =>
          /\ BigEndian(codec.res.val) = Bytes(codec.out, 16, 19)
          /\ codec.res.val = codec.data

C3_Witness ==
    /\ codec.fn = "decode_wb"
    /\ codec.count = 20
    /\ ~hostBE
    /\ codec.address = W32(16, 0, 0, 0)
    /\ codec.res.val = W32(18, 52, 86, 120)

C5_Orig_SendRecvPaired ==
    /\ \A k \in 1..Len(wire) :
         wire[k].ev = (IF k % 2 = 1 THEN "send" ELSE "recv")
    /\ op.st = "done" => Len(wire) % 2 = 0

\* C5 amended: a read transaction is one send followed by one blocking
\* receive with no other send in between; a write transaction is one send
\* and no receive.
C5_ReadPairedWriteUnacked ==
    /\ \A k \in 1..Len(wire) :
         /\ (wire[k].ev = "send" /\ wire[k].rcount = 1) =>
               IF k = Len(wire) THEN op.st = "recv" ELSE wire[k + 1].ev = "recv"
         /\ (wire[k].ev = "send" /\ wire[k].wcount = 1) =>
               (k < Len(wire) => wire[k + 1].ev = "send")
         /\ wire[k].ev = "recv" =>
               (k > 1 /\ wire[k - 1].ev = "send" /\ wire[k - 1].rcount = 1)
    /\ op.st = "recv" => (wire # <<>> /\ wire[Len(wire)].ev = "send")
    /\ (op.st = "done" /\ op.name \in WriteOps) =>
          (Len(Sends) = NativeCount(op.name) /\ Recvs = <<>>)
    /\ (op.st = "done" /\ op.name \in ReadOps) =>
          (Len(Sends) = NativeCount(op.name) /\ Len(Recvs) = NativeCount(op.name))

C5_Witness ==
    /\ op.st = "done"
    /\ op.name = "write32"
    /\ width = 8
    /\ Len(wire) = 4
    /\ \A k \in 1..4 : wire[k].ev = "send"

\* C6: a native read whose receive returns a count other than 20 logs the
\* error and returns all ones of the native width (0xFF byte-native,
\* 0xFFFFFFFF word-native); the process goes on, the request is sent once
\* only, and the caller gets a value.
C6_BadLengthAllOnes ==
    /\ \A k \in 1..Len(wire) :
         (wire[k].ev = "recv" /\ wire[k].count # 20) =>
             /\ wire[k].err
             /\ wire[k].native = (IF width = 8 THEN <<255>> ELSE AllOnes32)
    /\ stderr = Cardinality({k \in 1..Len(wire) : wire[k].ev = "recv" /\ wire[k].count # 20})
    /\ alive
    /\ op.name \in ReadOps =>
          Len(Sends) = Len(Recvs) + (IF op.st = "recv" THEN 1 ELSE 0)
    /\ (op.name \in ReadOps /\ op.st = "done") =>
          (Len(Sends) = NativeCount(op.name) /\ Len(op.ret) = OpBytes(op.name))

C6_Witness ==
    /\ op.name = "read32" /\ op.st = "done"
    /\ width = 32
    /\ Len(wire) = 2 /\ wire[2].count = 8
    /\ stderr = 1
    /\ op.old = Zero32
    /\ op.ret = AllOnes32

\* C7: byte-native write32 and read32 make exactly four native transactions,
\* at a, a+4, a+8, a+12 in that order, each carrying one byte; write64 and
\* read64 make exactly eight, at a+4k for k = 0..7.
C7_ByteNativeStride ==
    (width = 8 /\ op.st = "done" /\ OpBytes(op.name) \in {4, 8}) =>
        /\ Len(Sends) = OpBytes(op.name)
        /\ \A k \in 1..Len(Sends) :
             /\ Sends[k].addr = Add32(op.addr, 4 * (k - 1))
             /\ Sends[k].len = 20
             /\ op.name \in WriteOps =>
                  /\ Sends[k].wcount = 1 /\ Sends[k].rcount = 0
                  /\ Bytes(Sends[k].value, 1, 3) = <<0, 0, 0>>
                  /\ \E j \in 1..Len(op.val) : Sends[k].value[1] = op.val[j]
             /\ op.name \in ReadOps =>
                  /\ Sends[k].wcount = 0 /\ Sends[k].rcount = 1
                  /\ Len(Recvs[k].native) = 1

C7_Witness ==
    /\ width = 8 /\ op.st = "done" /\ op.name = "write64"
    /\ op.addr = W32(255, 255, 255, 248)
    /\ Len(Sends) = 8
    /\ Sends[3].addr = Zero32
    /\ Sends[8].addr = W32(0, 0, 0, 20)

\* C8 as stated: byte-native values are laid out little-endian, the least
\* significant byte at a and the most significant byte of 32 bits at a+12.
C8_Orig_LittleEndianLayout ==
    /\ (width = 8 /\ op.st = "done" /\ op.name \in {"write16", "write32"}) =>
          \A k \in 1..Len(Sends) : Sends[k].value[1] = op.val[k]
    /\ (width = 8 /\ op.st = "done" /\ op.name \in {"read16", "read32"} /\ op.clean) =>
          \A k \in 1..Len(Recvs) : Recvs[k].native[1] = op.ret[k]

\* C8 amended: on a little-endian host the bytes are laid out most significant
\* first (the most significant byte at a, the least significant at the last
\* address, a+12 for 32 bits); on a big-endian host the htole/letoh
\* conversions reverse this and the least significant byte is at a.
C8_HostOrderLayout ==
    /\ (width = 8 /\ op.st = "done" /\ op.name \in {"write16", "write32"}) =>
          \A k \in 1..Len(Sends) :
              Sends[k].value[1] = IF hostBE THEN op.val[k] ELSE op.val[Len(op.val) + 1 - k]
    /\ (width = 8 /\ op.st = "done" /\ op.name \in {"read16", "read32"}) =>
          \A k \in 1..Len(Recvs) :
              Recvs[k].native[1] = IF hostBE THEN op.ret[k] ELSE op.ret[Len(op.ret) + 1 - k]

C8_Witness ==
    /\ width = 8 /\ ~hostBE /\ op.st = "done" /\ op.name = "write32"
    /\ op.val = W32(18, 52, 86, 120)
    /\ Sends[1].addr = op.addr /\ Sends[1].value = <<18, 0, 0, 0>>
    /\ Sends[4].addr = Add32(op.addr, 12) /\ Sends[4].value = <<120, 0, 0, 0>>

\* C9: word-native write8 and write16 each make exactly one 32-bit write of
\* the zero-extended value and no read; afterwards the register at a holds v
\* in its low bits and zero above, whatever it held before.
C9_NarrowWriteOverwrites ==
    (width = 32 /\ op.st = "done" /\ op.name \in {"write8", "write16"}) =>
        /\ Len(wire) = 1
        /\ wire[1].ev = "send"
        /\ wire[1].wcount = 1 /\ wire[1].rcount = 0
        /\ wire[1].addr = op.addr
        /\ wire[1].value = ZeroExtend(op.val, 4)
        /\ MemRead(op.addr) = ZeroExtend(op.val, 4)

C9_Witness ==
    /\ width = 32 /\ op.st = "done" /\ op.name = "write8"
    /\ op.old = AllOnes32
    /\ op.val = <<120>>
    /\ MemRead(op.addr) = <<120, 0, 0, 0>>

DebugWrites == SelectSeq(dbg.calls, LAMBDA c : c.name \in WriteOps)

\* C10: a riscv_debug_read32 or riscv_debug_write32 whose register is neither
\* 0 (CORE) nor 4 (DATA) never gets past its counter read: it makes no write
\* call at all (so CORE, DATA and SYNC are not written), a read sends nothing
\* and a write sends only the read packets of its counter read, no value is
\* handed back, and the call ends with the process gone
C10_BadRegFatal ==
    (dbg.kind \in {"read", "write"} /\ dbg.reg \notin {0, 4}) =>
        /\ dbg.phase \in {"counter", "exit"}
        /\ dbg.kind = "read" => dbg.phase = "exit" /\ dbg.calls = <<>>
        /\ dbg.phase = "exit" => ~alive
        /\ (dbg.phase = "counter" /\ op.st = "done") => ENABLED DebugWriteExit
        /\ DebugWrites = <<>>
        /\ dbg.kind = "write" => \A k \in 1..Len(Sends) : Sends[k].wcount = 0
        /\ dbg.ret = <<>>

C10_Witness ==
    /\ dbg.kind = "write"
    /\ dbg.reg = 5
    /\ dbg.phase = "exit"
    /\ ~alive
    /\ Len(dbg.calls) = 1
    /\ Len(Sends) = NativeCount("read32")

One32 == W32(0, 0, 0, 1)

\* the debug call in progress has made its drop check
Checked ==
    \/ dbg.kind = "write" /\ dbg.phase \in {"write", "done"}
    \/ dbg.kind = "read" /\ dbg.phase = "done"

\* a debug call entered after k calls had been entered has made its drop check
CheckedSince(k) == nops > k + 1 \/ (nops = k + 1 /\ Checked)

\* what the drop check does with the counter value `counter`
C11_CheckStep(counter) ==
    /\ dropped' = dropped + (IF Sub32(counter, connCounter) = One32 THEN 0 ELSE 1)
    /\ connCounter' = counter
    /\ alive'

\* the two steps that make a drop check, and no step but them prints the
\* line or touches conn->counter once connected
C11_Steps ==
    /\ (dbg.kind = "write" /\ dbg.phase = "counter" /\ dbg'.phase = "write")
          => (C11_CheckStep(op.ret) /\ op'.name = "write32" /\ op'.st = "send")
    /\ (dbg.kind = "read" /\ dbg.phase = "value" /\ dbg'.phase = "done")
          => (C11_CheckStep(dbg.counter) /\ dbg'.ret = op.ret)
    /\ (dropped' # dropped \/ (connected /\ connCounter' # connCounter))
          => (\/ dbg.kind = "write" /\ dbg.phase = "counter" /\ dbg'.phase = "write"
              \/ dbg.kind = "read" /\ dbg.phase = "value" /\ dbg'.phase = "done")

\* C11: the drop check of riscv_debug_write32 (on the counter it has just
\* read) and of riscv_debug_read32 (on the counter it read before the sync
\* trigger) prints "Dropped packet!" exactly when that counter minus
\* conn->counter is not 1, stores the counter in conn->counter either way,
\* and the call goes on to its write or returns its value.  When the counter
\* skips once between two calls (nothing late, nothing lost) the next drop
\* check prints the line once, and no call before or after it prints one
C11_DropCheck ==
    /\ [][C11_Steps]_vars
    /\ []((hwLog.skips = 1 /\ ~hwLog.late /\ hwLog.lost = 0) =>
            dropped = (IF CheckedSince(hwLog.skipAt) THEN 1 ELSE 0))

\* the counter skipped before the first of two calls: one line, and the
\* second call, in step again, adds none
C11_Witness ==
    /\ hwLog.skips = 1 /\ hwLog.skipAt = 0 /\ ~hwLog.late /\ hwLog.lost = 0
    /\ nops = 2
    /\ dbg.kind = "write" /\ dbg.phase = "done" /\ dbg.prev = "read"
    /\ dropped = 1
    /\ hwPending = 0
    /\ connCounter = Sub32(hwCounter, One32)

C13_Orig_LossDetected ==
    (hwLog.lostAt > 0) ~>
        (dropped > 0 \/ ~alive \/ hwLog.skips > 0 \/ (nops = MaxOps /\ dbg.phase = "done"))

\* C13: a lost write to CORE or DATA is reported by the drop check of the
\* next debug call that gets to its check; a lost sync trigger is not
\* reported at all: the riscv_debug_read32 that sent it stays in its poll
\* loop, returns nothing and makes no check, and no later call is made
C13_LossDetectedOrStuck ==
    /\ (hwLog.lostAt > 0 /\ ~hwLog.lostSync /\ hwLog.skips = 0 /\ CheckedSince(hwLog.lostAt))
          => dropped >= 1
    /\ (hwLog.lostSync /\ ~hwLog.late)
          => /\ nops = hwLog.lostAt
             /\ dbg.kind = "read"
             /\ dbg.phase \in {"sync", "poll"}
             /\ dbg.ret = <<>>
             /\ hwPending = 0
             /\ alive

\* the write of the first call is lost, the check of the second reports it
C13_Witness ==
    /\ hwLog.lostAt = 1 /\ ~hwLog.lostSync /\ hwLog.skips = 0 /\ ~hwLog.late
    /\ nops = 2
    /\ dbg.prev = "write"
    /\ Checked
    /\ dropped = 1

\* the eight addresses 0xf00f0000 .. 0xf00f0007
WindowAddrs == {Add32(DEBUG_WINDOW_BASE, k) : k \in 0..7}

WellFormed(req) == req.readwrite \in {0, 1} /\ req.size \in {0, 1, 2}

\* the registers a debug call for window offset 0 (CORE) or 4 (DATA) may touch
BridgeRegs(reg) ==
    {CSR_CPU_OR_BRIDGE_DEBUG_PACKET_COUNTER, CSR_CPU_OR_BRIDGE_DEBUG_SYNC,
     IF reg = 0 THEN CSR_CPU_OR_BRIDGE_DEBUG_CORE ELSE CSR_CPU_OR_BRIDGE_DEBUG_DATA}

\* C14: a 32-bit read or write whose address is one of 0xf00f0000 ..
\* 0xf00f0007 goes to riscv_debug_read32 / riscv_debug_write32 with the offset
\* as register (0 works on CORE, 4 on DATA), and no request in the window
\* reaches the register adapter at its own address; a well-formed request
\* at any other address, the two next to the window included, goes to
\* wb_read<N> / wb_write<N> of its width at that address
C14_Routing ==
    srv.last = "req" =>
        LET req == srv.req
        IN  /\ (req.address \in WindowAddrs /\ WellFormed(req) /\ req.size = 2)
                  => /\ srv.route = "debug"
                     /\ dbg.kind = (IF req.readwrite = 1 THEN "write" ELSE "read")
                     /\ dbg.reg = Sub32(req.address, DEBUG_WINDOW_BASE)[1]
                     /\ dbg.reg \in {0, 4} =>
                           \A k \in 1..Len(dbg.calls) : dbg.calls[k].addr \in BridgeRegs(dbg.reg)
                     /\ op.addr # req.address
            /\ req.address \in WindowAddrs => srv.route # "adapter"
            /\ srv.route = "debug" => req.address \in WindowAddrs
            /\ (req.address \notin WindowAddrs /\ WellFormed(req))
                  => /\ srv.route = "adapter"
                     /\ op.addr = req.address
                     /\ op.name = (IF req.readwrite = 1 THEN "write" ELSE "read")
                                    \o (CASE req.size = 0 -> "8" [] req.size = 1 -> "16" [] OTHER -> "32")

\* a 32-bit read of 0xf00f0000 has been answered from CORE
C14_Witness ==
    /\ srv.last = "req" /\ srv.pc = "top"
    /\ srv.req.address = DEBUG_WINDOW_BASE /\ srv.req.size = 2 /\ srv.req.readwrite = 0
    /\ srv.route = "debug"
    /\ dbg.phase = "done"
    /\ dbg.calls[Len(dbg.calls)] = [name |-> "read32", addr |-> CSR_CPU_OR_BRIDGE_DEBUG_CORE]
    /\ srv.replied

\* the statement of C15 as the specification has it: an 8-bit or 16-bit
\* request in the window, read or write, gets no bus transaction and no reply
C15_Orig_NarrowDropped ==
    (srv.last = "req" /\ srv.req.address \in WindowAddrs /\ WellFormed(srv.req) /\ srv.req.size < 2)
        => (srv.route = "drop" /\ ~srv.replied /\ srv.reply = <<>>)

\* C15: an 8-bit or 16-bit request in the window starts no bus transaction;
\* a write gets no reply, but a read is answered with the 4 bytes of resp,
\* to which nothing was assigned
C15_NarrowReadRepliesStale ==
    (srv.last = "req" /\ srv.req.address \in WindowAddrs /\ WellFormed(srv.req) /\ srv.req.size < 2)
        => /\ srv.route = "drop"
           /\ srv.pc = "top"
           /\ srv.replied <=> srv.req.readwrite = 0
           /\ Len(srv.reply) = (IF srv.req.readwrite = 0 THEN 4 ELSE 0)

\* an 8-bit read of 0xf00f0000 is answered with stack contents
C15_Witness ==
    /\ srv.last = "req" /\ srv.req.address = DEBUG_WINDOW_BASE
    /\ srv.req.size = 0 /\ srv.req.readwrite = 0
    /\ srv.route = "drop"
    /\ srv.replied
    /\ FromMemBytes(srv.reply) = W32(222, 173, 190, 239)
    /\ peer.got = 1

\* a read of a byte count other than 0 and 10 changes nothing but the log
C16_Step ==
    (peer'.shorts # peer.shorts) =>
        /\ srv.connect_fd > 0
        /\ srv'.connect_fd = srv.connect_fd
        /\ srv'.pc = "top"
        /\ ~srv'.replied
        /\ peer'.open = peer.open
        /\ peer'.got = peer.got
        /\ peer'.reqs = peer.reqs
        /\ UNCHANGED <<hostVars, netVars, dbgVars, hwVars>>

\* C16: a vrv_read that returns a count other than 0 and 10 is logged and
\* nothing else: no bus transaction, no reply, the session stays open, and
\* the loop is back at vrv_read on the same session, where a 10-byte
\* request is handled as ever
C16_ShortReadIgnored ==
    /\ [][C16_Step]_vars
    /\ [](srv.last = "short" =>
            (alive /\ srv.pc = "top" /\ srv.connect_fd > 0 /\ peer.open = {srv.connect_fd}))

\* a 7-byte read, then a read request on the same session, answered
C16_Witness ==
    /\ peer.shorts = 1 /\ peer.reqs = 1 /\ peer.clients = 1
    /\ srv.connect_fd = 1
    /\ srv.last = "req" /\ srv.pc = "top"
    /\ srv.route = "adapter" /\ srv.req.readwrite = 0
    /\ srv.replied

\* bytes go to the client only at the end of a round for a read request,
\* one reply of 4 bytes
C17_Step ==
    (peer'.got # peer.got /\ srv'.last # "accept") =>
        /\ peer'.got = peer.got + 1
        /\ srv'.pc = "top"
        /\ srv'.req.readwrite = 0
        /\ Len(srv'.reply) = 4

\* C17: a round for a write request ends with nothing sent to the client,
\* and a round for a read request that gets to its end sends exactly one reply
\* of exactly 4 bytes
C17_OnlyReadsReply ==
    /\ [][C17_Step]_vars
    /\ []((srv.last = "req" /\ srv.pc = "top") =>
            /\ srv.replied <=> srv.req.readwrite = 0
            /\ Len(srv.reply) = (IF srv.req.readwrite = 0 THEN 4 ELSE 0))
    /\ []((srv.last = "req" /\ srv.pc = "busy") => (~srv.replied /\ srv.reply = <<>>))

\* a 32-bit write outside the window has been made and nothing was sent
C17_Witness ==
    /\ srv.last = "req" /\ srv.pc = "top"
    /\ srv.req.readwrite = 1 /\ srv.req.size = 2
    /\ srv.route = "adapter"
    /\ op.st = "done"
    /\ ~srv.replied
    /\ peer.got = 0

\* C18: never are two accepted sessions open: accept is called only with no
\* session open, and a client that connects meanwhile waits
C18_OneSession ==
    /\ [][(peer'.open # peer.open /\ peer'.open # {}) => (peer.open = {} /\ srv.connect_fd <= 0)]_vars
    /\ [](Cardinality(peer.open) <= 1)
    /\ [](srv.connect_fd > 0 => peer.open = {srv.connect_fd})

\* the first client is being served, the second one waits
C18_Witness ==
    /\ peer.clients = 2 /\ peer.waiting = 1
    /\ peer.open = {1}
    /\ srv.connect_fd = 1
    /\ srv.last = "req" /\ srv.pc = "busy"

\* vrv_read returning 0 closes the session and leaves the connection to the
\* bridge as it was
C19_Step ==
    (AtRead /\ srv'.last = "eof") =>
        /\ srv'.connect_fd = 0
        /\ srv'.pc = "top"
        /\ peer'.open = peer.open \ {srv.connect_fd}
        /\ UNCHANGED <<hostVars, netVars, dbgVars, hwVars>>

C20_NarrowReplyZeroExtended ==
    (srv.last = "req" /\ srv.pc = "top" /\ srv.route = "adapter"
        /\ srv.req.readwrite = 0 /\ srv.req.size \in {0, 1}) =>
        LET n == IF srv.req.size = 0 THEN 1 ELSE 2
            v == FromMemBytes(srv.reply)
        IN  /\ Len(srv.reply) = 4
            /\ Len(op.ret) = n
            /\ \A k \in 1..4 : v[k] = (IF k <= n THEN op.ret[k] ELSE 0)
            /\ width = 32 => op.ret = Truncate(MemRead(srv.req.address), n)

\* 0x12345678 was written first: the 8-bit read is answered 0x00000078
C20_Witness ==
    /\ srv.last = "req" /\ srv.pc = "top" /\ srv.route = "adapter"
    /\ srv.req.readwrite = 0 /\ srv.req.size = 0
    /\ width = 32
    /\ MemRead(srv.req.address) = W32(18, 52, 86, 120)
    /\ FromMemBytes(srv.reply) = W32(0, 0, 0, 120)

\* after a failed wb_connect the program does nothing more
C21_Step ==
    srv.err # 0 => UNCHANGED <<alive, op, wire, mem, rx, dbg, connected, connCounter, srv>>

\* C21: when wb_connect returns non-zero (a socket could not be made or
\* bound, or the remote address did not resolve) main returns at once: no
\* packet has been or will be sent, no client is ever accepted, and a client
\* that has connected to the listening socket stays unanswered
C21_ConnectFailureExits ==
    /\ [](srv.err # 0 =>
            /\ ~alive
            /\ ~connected
            /\ wire = <<>> /\ op = NoOp /\ mem = <<>> /\ hwPending = 0
            /\ dbg = NoDebug
            /\ srv.connect_fd = 0 /\ srv.last = "none"
            /\ peer.open = {} /\ peer.reqs = 0 /\ peer.got = 0)
    /\ [][C21_Step]_vars

\* getaddrinfo has failed and a client waits in vain
C21_Witness ==
    /\ srv.err = 1
    /\ srv.pc = "failed"
    /\ ~alive
    /\ peer.waiting = 1

\* the adapter calls of a riscv_debug_write32 that has returned
CounterCall == [name |-> "read32", addr |-> CSR_CPU_OR_BRIDGE_DEBUG_PACKET_COUNTER]

BackingCall(name, reg) ==
    [name |-> name,
     addr |-> IF reg = 0 THEN CSR_CPU_OR_BRIDGE_DEBUG_CORE ELSE CSR_CPU_OR_BRIDGE_DEBUG_DATA]

\* the statement of C22 as the specification has it: the backing register
\* is written first and the counter is read after it
C22_Orig_WriteThenCounter ==
    (dbg.kind = "write" /\ dbg.phase = "done") =>
        dbg.calls = <<BackingCall("write32", dbg.reg), CounterCall>>

\* the step of riscv_debug_write32 that starts the wb_write32
C22_Step ==
    (dbg.kind = "write" /\ dbg'.phase = "write" /\ dbg.phase # "write") =>
        /\ dbg.phase = "counter"
        /\ dbg.calls = <<CounterCall>>
        /\ op.name = "read32" /\ op.st = "done"
        /\ dropped' = dropped + (IF Sub32(op.ret, connCounter) = One32 THEN 0 ELSE 1)
        /\ connCounter' = op.ret
        /\ op'.name = "write32" /\ op'.st = "send" /\ wire' = <<>>

\* C22: riscv_debug_write32 reads the counter first, then makes the drop
\* check and stores the counter, and writes the backing register last: when
\* the write goes out the check is done and conn->counter is the counter
\* just read
C22_CounterThenWrite ==
    /\ [][C22_Step]_vars
    /\ []((dbg.kind = "write" /\ dbg.phase \in {"write", "done"}) =>
            /\ dbg.calls = <<CounterCall, BackingCall("write32", dbg.reg)>>
            /\ connCounter = dbg.counter
            /\ op.name = "write32" /\ op.addr = BackingCall("write32", dbg.reg).addr)
    /\ []((dbg.kind = "write" /\ dbg.phase = "counter") =>
            \A k \in 1..Len(wire) : wire[k].ev = "send" => wire[k].rcount = 1)

\* a write of DATA has returned after a skipped count was reported
C22_Witness ==
    /\ dbg.kind = "write" /\ dbg.phase = "done" /\ dbg.reg = 4
    /\ dbg.calls = <<CounterCall, BackingCall("write32", 4)>>
    /\ connCounter = dbg.counter
    /\ dropped = 1

\* C23: riscv_debug_read32 reads the counter once, writes the sync register
\* once, then polls the counter, and reads the backing register only when a
\* poll has returned something else than the first counter; until then it
\* polls again
C23_ReadProtocol ==
    /\ [][(dbg.kind = "read" /\ dbg'.phase = "value" /\ dbg.phase # "value") =>
            /\ dbg.phase = "poll"
            /\ op.name = "read32" /\ op.addr = CSR_CPU_OR_BRIDGE_DEBUG_PACKET_COUNTER
            /\ op.st = "done"
            /\ op.ret # dbg.counter]_vars
    /\ [][(dbg.kind = "read" /\ dbg.phase = "poll" /\ op.st = "done" /\ op.ret = dbg.counter
             /\ dbg' # dbg) =>
            /\ dbg'.phase = "poll"
            /\ op'.addr = CSR_CPU_OR_BRIDGE_DEBUG_PACKET_COUNTER /\ op'.st = "send"]_vars
    /\ []((dbg.kind = "read" /\ dbg.phase \in {"sync", "poll", "value", "done"}) =>
            LET calls == dbg.calls
                n == Len(calls)
                polls == IF dbg.phase \in {"value", "done"} THEN n - 3 ELSE n - 2
            IN  /\ n >= 2
                /\ calls[1] = CounterCall
                /\ calls[2] = [name |-> "write8", addr |-> CSR_CPU_OR_BRIDGE_DEBUG_SYNC]
                /\ \A k \in 3..(2 + polls) : calls[k] = CounterCall
                /\ dbg.phase \in {"value", "done"} =>
                      (polls >= 1 /\ calls[n] = BackingCall("read32", dbg.reg)
                       /\ dbg.seen # dbg.counter)
                /\ dbg.phase \in {"sync", "poll"} =>
                      \A k \in 1..n : calls[k] # BackingCall("read32", dbg.reg))

\* a read of CORE that polled twice before the counter moved
C23_Witness ==
    /\ dbg.kind = "read" /\ dbg.phase = "done" /\ dbg.reg = 0
    /\ dbg.loops = 1
    /\ dbg.calls = <<CounterCall, [name |-> "write8", addr |-> CSR_CPU_OR_BRIDGE_DEBUG_SYNC],
                     CounterCall, CounterCall, BackingCall("read32", 0)>>
    /\ dbg.seen # dbg.counter

\* the statement of C24 as the specification has it: conn->counter is the
\* last counter value the call has read
C24_Orig_StoresLatest ==
    (dbg.kind \in {"read", "write"} /\ dbg.phase = "done") => connCounter = dbg.seen

\* C24: when riscv_debug_write32 or riscv_debug_read32 has returned,
\* conn->counter is the counter the call read first: for a write the only
\* one it read, for a read the one of before the trigger, which the polls
\* that followed have seen change
C24_StoresFirstCounter ==
    (dbg.kind \in {"read", "write"} /\ dbg.phase = "done") =>
        /\ connCounter = dbg.counter
        /\ dbg.kind = "write" => dbg.seen = dbg.counter
        /\ dbg.kind = "read" => dbg.seen # dbg.counter

\* a read has returned: the poll saw 0x00000100, 0x000000ff is stored
C24_Witness ==
    /\ dbg.kind = "read" /\ dbg.phase = "done"
    /\ dbg.counter = W32(0, 0, 0, 255)
    /\ dbg.seen = W32(0, 0, 1, 0)
    /\ connCounter = W32(0, 0, 0, 255)

\* the packets of the one wb_read32 of the counter
CounterReads ==
    /\ Len(wire) = 2 * NativeCount("read32")
    /\ \A k \in 1..Len(wire) :
           wire[k].ev = "send" => (wire[k].rcount = 1 /\ CounterLane(wire[k].addr) # -1)

\* the statement of C25 as the specification has it: conn->counter is the
\* value the read at connect time returned
C25_Orig_SeedIsCounter ==
    (dbg.kind = "connect" /\ dbg.phase = "done") => connCounter = dbg.counter

\* C25: when wb_connect has returned 0 it has read the counter once, and
\* nothing else, and conn->counter is that value less one
C25_SeedIsCounterLessOne ==
    (dbg.kind = "connect" /\ dbg.phase = "done") =>
        /\ connected
        /\ dbg.calls = <<CounterCall>>
        /\ CounterReads
        /\ dbg.counter = op.ret
        /\ connCounter = Sub32(dbg.counter, One32)

\* connected to a remote whose counter is 0: 0xffffffff is stored
C25_Witness ==
    /\ dbg.kind = "connect" /\ dbg.phase = "done"
    /\ connected
    /\ dbg.counter = Zero32
    /\ connCounter = AllOnes32

\* the sync trigger of the read in progress was lost and the counter it read
\* first was up to date
Stalled == hwLog.lostSync /\ ~hwLog.late

\* C26: a riscv_debug_read32 whose packets all arrive returns, since the
\* remote end completes the triggered transaction and the counter then
\* differs from the one read first; one whose trigger is lost, so that the
\* counter never changes, polls for ever: it never returns, no reply is sent
\* and the relay reads no further request
C26_ReadReturnsOrPollsForever ==
    /\ (srv.pc = "busy" /\ dbg.kind = "read" /\ dbg.phase = "counter")
          ~> (dbg.phase = "done" \/ hwLog.lostSync)
    /\ [](Stalled =>
            /\ alive
            /\ srv.pc = "busy" /\ srv.route = "debug" /\ ~srv.replied
            /\ dbg.kind = "read" /\ dbg.phase \in {"sync", "poll"}
            /\ hwPending = 0 /\ hwCounter = dbg.counter)
    /\ [][Stalled => (Stalled' /\ UNCHANGED <<srv, peer.reqs, peer.got, connCounter, dropped>>)]_vars

\* the trigger was lost and the read has polled more than twice
C26_Witness ==
    /\ Stalled
    /\ srv.pc = "busy"
    /\ dbg.phase = "poll" /\ dbg.loops = MaxLoops
    /\ peer.reqs = 1

\* the adapter and the bridge have nothing in progress
BusQuiet == op.st \in {"idle", "done"} /\ dbg.phase \in {"idle", "done"}

\* a request is taken off the stream only between rounds
C27_Step ==
    (peer'.reqs = peer.reqs + 1) =>
        /\ srv.pc # "busy"
        /\ srv.connect_fd > 0
        /\ BusQuiet
        /\ srv.last = "req" => (srv.replied <=> srv.req.readwrite = 0)
        /\ peer.got = peer'.got \/ (srv'.pc = "top" /\ srv'.replied)

\* C27: the loop reads a request only when the one before is done with: its
\* adapter and bridge calls have returned and, for a read, its 4 bytes have
\* been written; while a request is in progress nothing is read from the
\* client
C27_OneAtATime ==
    /\ [][C27_Step]_vars
    /\ [][srv.pc = "busy" =>
            (srv'.req = srv.req /\ peer'.reqs = peer.reqs /\ srv'.route = srv.route
             /\ srv'.connect_fd = srv.connect_fd)]_vars
    /\ []((alive /\ srv.pc \in {"top", "read"}) => BusQuiet)

\* the second request, a debug read, is in progress after the first, an
\* adapter read, was answered
C27_Witness ==
    /\ peer.reqs = 2 /\ peer.got = 1
    /\ srv.pc = "busy" /\ srv.route = "debug" /\ srv.req.readwrite = 0
    /\ dbg.phase = "poll"
    /\ op.st = "recv"

\* C28: every packet wb_write<N>, wb_read<N> and the bridge send has a
\* write count of 1 and a read count of 0, or the other way round, and it is
\* the write calls that send the former
C28_OneRecordPerPacket ==
    \A k \in 1..Len(wire) :
        wire[k].ev = "send" =>
            /\ <<wire[k].wcount, wire[k].rcount>> \in {<<1, 0>>, <<0, 1>>}
            /\ wire[k].wcount = 1 <=> op.name \in WriteOps
            /\ wire[k].len = PKT_LEN

\* the bridge has sent the sync trigger of a read of DATA
C28_Witness ==
    /\ dbg.kind = "read" /\ dbg.phase = "sync" /\ dbg.reg = 4
    /\ op.name = "write8" /\ op.st = "done"
    /\ Len(wire) = 1
    /\ wire[1].wcount = 1 /\ wire[1].rcount = 0
    /\ wire[1].addr = CSR_CPU_OR_BRIDGE_DEBUG_SYNC

\* the statement of C29 as the specification has it: the relay is still
\* running after any request
C29_Orig_NoRequestKills ==
    srv.last = "req" => alive

\* the 32-bit requests of the window that name no register
BadRegRequest(req) ==
    /\ req.address \in WindowAddrs /\ WellFormed(req) /\ req.size = 2
    /\ Sub32(req.address, DEBUG_WINDOW_BASE)[1] \notin {0, 4}

\* C29: the relay goes on after every request but a 32-bit read or write at
\* window offset 1, 2, 3, 5, 6 or 7, which ends the process with exit(1):
\* the read at once, the write after the counter was read; no reply is sent
C29_BadRegRequestExits ==
    /\ (srv.last = "req" /\ ~alive) =>
           (BadRegRequest(srv.req) /\ srv.pc = "busy" /\ dbg.phase = "exit" /\ ~srv.replied)
    /\ (srv.last = "req" /\ BadRegRequest(srv.req)) =>
           /\ srv.route = "debug"
           /\ srv.req.readwrite = 0 => ~alive
           /\ (srv.req.readwrite = 1 /\ dbg.phase # "counter") => ~alive

\* a 32-bit read of 0xf00f0007 has ended the process
C29_Witness ==
    /\ srv.last = "req"
    /\ srv.req.address = Add32(DEBUG_WINDOW_BASE, 7)
    /\ srv.req.readwrite = 0 /\ srv.req.size = 2
    /\ ~alive
    /\ peer.open = {1}

\* the statement of C30 as the specification has it: a reply carries what a
\* bus read made for its request returned
C30_Orig_ReplyIsReadResult ==
    (srv.last = "req" /\ srv.pc = "top" /\ srv.replied) =>
        /\ srv.route \in {"debug", "adapter"}
        /\ srv.reply = MemBytes(IF srv.route = "debug" THEN dbg.ret ELSE ZeroExtend(op.ret, 4))

\* C30: the reply to a read that was routed to the bridge or the adapter
\* carries what that call returned; the reply to a read of a width that is
\* not served (8 or 16 bits in the window, an unknown width code anywhere)
\* carries resp as the stack had it, no bus read having been made
C30_UnservedReadRepliesStale ==
    (srv.last = "req" /\ srv.pc = "top" /\ srv.replied) =>
        /\ srv.req.readwrite = 0
        /\ srv.route \in {"debug", "adapter"} =>
              srv.reply = MemBytes(IF srv.route = "debug" THEN dbg.ret ELSE ZeroExtend(op.ret, 4))
        /\ srv.route = "drop" <=>
              \/ srv.req.size \notin {0, 1, 2}
              \/ srv.req.address \in WindowAddrs /\ srv.req.size # 2

\* a read with width code 3 outside the window is answered 0xdeadbeef
C30_Witness ==
    /\ srv.last = "req" /\ srv.pc = "top"
    /\ srv.req.readwrite = 0 /\ srv.req.size = 3
    /\ srv.req.address = DEBUG_WINDOW_END
    /\ srv.route = "drop"
    /\ srv.replied
    /\ FromMemBytes(srv.reply) = W32(222, 173, 190, 239)

\* the statement of C31 as the specification has it: the datagram a read is
\* about to take carries the data of the reply to the request it has just sent
C31_Orig_OwnReply ==
    (op.st = "recv" /\ rx # <<>>) =>
        WireField(Head(rx), 16) = HwRead(WireField(op.buf, 16))

\* C31: wb_recv takes the oldest datagram whatever request it answers: once a
\* reply was delivered twice the queue never drains again, every later read
\* finds one datagram more than it asked for and takes the older one
C31_DuplicateStaysQueued ==
    Len(rx) = faults + (IF op.st = "recv" THEN 1 ELSE 0)

\* a byte-native read32 right after write32 that met a duplicate returns, with
\* no error printed, something else than the value written
C31_Witness ==
    /\ op.name = "read32" /\ op.st = "done" /\ echo.set /\ echo.addr = op.addr
    /\ width = 8
    /\ faults = 1
    /\ op.clean /\ stderr = 0
    /\ op.ret # echo.val
    /\ Len(rx) = 1

\* the statement of C32 as the specification has it: read64(A) right after
\* write64(A, V), with no reply cut short and no failed receive, returns V
C32_Orig_Wide_RoundTrip ==
    (op.name = "read64" /\ op.st = "done" /\ echo.wide # <<>> /\ echo.addr = op.addr
         /\ faults = 0)
        => op.ret = echo.wide

\* the low five bytes of a 64-bit word
Low40(v) == [k \in 1..8 |-> IF k <= 5 THEN v[k] ELSE 0]

\* C32: read64(A) right after write64(A, V) returns V in byte-native mode; in
\* word-native mode the two halves are shifted by 8 bits, not 32, they
\* overlap, and what comes back is the low 40 bits of V as laid out in
\* little-endian order, the other 24 bits zero
C32_WordNativeKeeps40Bits ==
    (op.name = "read64" /\ op.st = "done" /\ echo.wide # <<>> /\ echo.addr = op.addr
         /\ faults = 0)
        => op.ret = IF width = 8 THEN echo.wide ELSE letoh(Low40(htole(echo.wide)))

\* word-native, little-endian host: 0x7856341212345678 comes back as
\* 0x0000001212345678
C32_Witness ==
    /\ op.name = "read64" /\ op.st = "done" /\ echo.addr = op.addr /\ faults = 0
    /\ width = 32 /\ ~hostBE
    /\ echo.wide = <<120, 86, 52, 18, 18, 52, 86, 120>>
    /\ op.ret = <<120, 86, 52, 18, 18, 0, 0, 0>>

\* the loop has just taken a failed vrv_read
AfterReadError == srv.n = -1 /\ srv.pc = "top" /\ srv.last \in {"eof", "short"}

\* the statement of C33 as the specification has it: a failed read from the
\* client ends the session, and the relay goes back to accept
C33_Orig_ErrorEndsSession ==
    AfterReadError => (srv.connect_fd = 0 /\ peer.open = {} /\ NeedAccept)

\* C33: a failed read from the client is taken as a request of the wrong
\* size: the session stays open and the next thing the relay does is read the
\* same connection again
C33_ErrorTakenAsShortRead ==
    AfterReadError =>
        /\ srv.last = "short"
        /\ srv.connect_fd > 0 /\ srv.connect_fd \in peer.open
        /\ AtRead /\ ~NeedAccept

C33_Witness ==
    /\ AfterReadError
    /\ srv.connect_fd = 1
    /\ peer.open = {1}
    /\ peer.waiting = 1
    /\ AtRead

\* a read32 of the packet counter has returned
CounterReadDone ==
    op.name = "read32" /\ op.addr = CSR_CPU_OR_BRIDGE_DEBUG_PACKET_COUNTER /\ op.st = "done"

\* the values the packet counter has held: it advances by one for each
\* transaction, and no more than one transaction is started per call
HeldCounters == {Sub32(hwCounter, W32(0, 0, 0, k)) : k \in 0..MaxOps}

\* the statement of C34 as the specification has it: a read32 of the packet
\* counter returns a value the counter held, in byte-native mode too
C34_Orig_NoTornRead ==
    CounterReadDone => op.ret \in HeldCounters

\* C34: a word-native read32 of the packet counter returns a value the
\* counter held; a byte-native one is four reads of one byte each, and each
\* byte of what it returns is that byte of a value the counter held, not
\* always the same value for all four
C34_BytesReadApart ==
    CounterReadDone =>
        /\ width = 32 => op.ret \in HeldCounters
        /\ \A k \in 1..4 : \E h \in HeldCounters : op.ret[k] = h[k]

\* little-endian host, byte-native: the counter goes from 0x000000ff to
\* 0x00000100 between the third and the fourth byte, and the poll returns 0
C34_Witness ==
    /\ CounterReadDone
    /\ width = 8 /\ ~hostBE
    /\ dbg.kind = "read" /\ dbg.phase = "poll"
    /\ dbg.counter = W32(0, 0, 0, 255)
    /\ hwCounter = W32(0, 0, 1, 0)
    /\ op.ret = Zero32

\* a drop check that finds 0 after 0xffffffff prints nothing
C35_WrapStep ==
    (connCounter = AllOnes32 /\ connCounter' = Zero32) => dropped' = dropped

\* the first debug call after a connect that found the counter at 0 has made
\* its check and printed nothing
C35_FirstCall ==
    (nops = 1 /\ Checked /\ dbg.prev = "connect" /\ dbg.counter = Zero32) => dropped = 0

\* C35: the drop check is exact across the wrap of the 32-bit counter: a
\* stored 0xffffffff followed by a counter of 0 prints no "Dropped packet!",
\* and after a connect to a counter that reads 0 the first debug call prints
\* none
C35_WrapExact == []C35_FirstCall /\ [][C35_WrapStep]_vars

\* connect found 0 and stored 0xffffffff; the first call, a write, found 0
\* again, stored it and printed nothing
C35_Witness ==
    /\ nops = 1 /\ Checked /\ dbg.prev = "connect"
    /\ dbg.kind = "write"
    /\ dbg.counter = Zero32
    /\ connCounter = Zero32
    /\ dropped = 0

\* the bus addresses of the packets the call in progress has sent
SentAddrs == {wire[k].addr : k \in {j \in DOMAIN wire : wire[j].ev = "send"}}

\* the statement of C36 as the specification has it: no packet addresses a
\* bus location inside the debug window
C36_Orig_WindowNeverOnBus ==
    SentAddrs \cap WindowAddrs = {}

\* C36: the window test looks at the address of the request only: the first
\* packet of a call never addresses the window and on a 32-bit bus no packet
\* does, but on an 8-bit bus the later byte transactions of a 16-bit or 32-bit
\* access go to address + 4, + 8, + 12, and those of a request just below the
\* window fall inside it
C36_FirstPacketOutside ==
    /\ wire # <<>> => wire[1].addr \notin WindowAddrs
    /\ width = 32 => SentAddrs \cap WindowAddrs = {}

\* byte-native: a 16-bit write at 0xf00effff has sent its second byte to
\* 0xf00f0003
C36_Witness ==
    /\ width = 8
    /\ srv.route = "adapter"
    /\ srv.req.readwrite = VRV_RW_WRITE /\ srv.req.size = 1
    /\ srv.req.address = Sub32(DEBUG_WINDOW_BASE, One32)
    /\ Len(wire) = 2
    /\ wire[2].addr = Add32(DEBUG_WINDOW_BASE, 3)

\* an access of the valid/ready bridge is in progress or has returned
VrAccess == dbg.kind \in VrWrites \cup VrReads

VrPayloadRegs ==
    {CSR_CPU_OR_BRIDGE_I_DEBUG_BUS_CMD_PAYLOAD_WR_ADDR,
     CSR_CPU_OR_BRIDGE_I_DEBUG_BUS_CMD_PAYLOAD_ADDRESS_ADDR,
     CSR_CPU_OR_BRIDGE_I_DEBUG_BUS_CMD_PAYLOAD_DATA_ADDR}

VrValidCall == [name |-> "write8", addr |-> CSR_CPU_OR_BRIDGE_I_DEBUG_BUS_CMD_VALID_ADDR]

VrLogWrites == SelectSeq(dbg.calls, LAMBDA c : c.name \in WriteOps)

\* C37: an access of the valid/ready bridge writes command-valid first, and
\* writes 0; it writes the write flag, the address and the data only while
\* command-valid is 0; its last write is command-valid, and writes 1; a read
\* access reads response-data only after a read of the ready register that
\* returned a value with bit 0 set
C37_ValidReadyOrder ==
    VrAccess =>
        /\ dbg.calls[1] = VrValidCall
        /\ (Len(dbg.calls) = 1 /\ op.st = "done") =>
               MemRead(CSR_CPU_OR_BRIDGE_I_DEBUG_BUS_CMD_VALID_ADDR) = Zero32
        /\ (op.name \in WriteOps /\ op.addr \in VrPayloadRegs) =>
               MemRead(CSR_CPU_OR_BRIDGE_I_DEBUG_BUS_CMD_VALID_ADDR) = Zero32
        /\ dbg.phase \in {"poll", "value", "done"} =>
               /\ VrLogWrites[Len(VrLogWrites)] = VrValidCall
               /\ Len(VrLogWrites) > 1
               /\ MemRead(CSR_CPU_OR_BRIDGE_I_DEBUG_BUS_CMD_VALID_ADDR) = One32
        /\ (dbg.kind \in VrReads /\ dbg.phase \in {"value", "done"}) =>
               /\ dbg.seen[1] % 2 = 1
               /\ dbg.calls[Len(dbg.calls)].addr = CSR_CPU_OR_BRIDGE_O_DEBUG_BUS_RSP_DATA_ADDR
               /\ dbg.calls[Len(dbg.calls) - 1] =
                      [name |-> "read8", addr |-> CSR_CPU_OR_BRIDGE_O_DEBUG_BUS_CMD_READY_ADDR]
               /\ \A k \in 1..(Len(dbg.calls) - 1) :
                      dbg.calls[k].addr # CSR_CPU_OR_BRIDGE_O_DEBUG_BUS_RSP_DATA_ADDR

\* a riscv_debug_read32 that found ready at 0 once, polled again and returned
C37_Witness ==
    /\ dbg.kind = "riscv_debug_read32" /\ dbg.phase = "done"
    /\ dbg.reg = 4
    /\ dbg.loops = 1
    /\ dbg.seen = <<1>>
    /\ Len(dbg.calls) = 9
    /\ width = 8

\* the packet the encoder that ran makes of the same address and value in a
\* buffer that held raw_pkt
Reencoded(raw_pkt) ==
    CASE codec.fn = "eb_fill_write32" -> eb_fill_write32(raw_pkt, codec.address, codec.data)
      [] codec.fn = "eb_fill_read32" -> eb_fill_read32(raw_pkt, codec.address)
      [] codec.fn = "wb_write32" -> WritePkt(raw_pkt, codec.address, codec.data)
      [] codec.fn = "wb_write8" ->
             WritePkt(raw_pkt, codec.address, ZeroExtend(Truncate(codec.data, 1), 4))
      [] codec.fn = "wb_read32" -> ReadPkt(raw_pkt, codec.address)

Encoders == {"eb_fill_write32", "eb_fill_read32", "wb_write32", "wb_write8", "wb_read32"}

\* the bytes of the packet (counted from 1) that an encoder leaves as the
\* buffer had them
LeftAlone(fn) ==
    CASE fn = "eb_fill_write32" -> {}
      [] fn = "eb_fill_read32" -> 13..16
      [] fn \in {"wb_write32", "wb_write8"} -> {9, 10}
      [] fn = "wb_read32" -> {9, 10} \cup 13..16

\* the statement of C38 as the specification has it: the encoded packet is
\* the same whatever the buffer held before
C38_Orig_BufferIndependent ==
    codec.fn \in Encoders => \A raw_pkt \in CodecStaleBufs : Reencoded(raw_pkt) = codec.out

\* C38: the encoded packet is 20 bytes of which all but a few are a function
\* of the operation, the address and the value; eb_fill_read32 leaves the
\* write-address bytes 12..15 as the buffer had them, the adapter's writes
\* leave the record-flags and byte-enable bytes 8 and 9, and the adapter's
\* read leaves all six
C38_StaleBytesKept ==
    codec.fn \in Encoders =>
        /\ Len(codec.out) = PKT_LEN
        /\ \A raw_pkt \in CodecStaleBufs : \A n \in 1..PKT_LEN :
              IF n \in LeftAlone(codec.fn)
              THEN codec.out[n] = codec.raw[n] /\ Reencoded(raw_pkt)[n] = raw_pkt[n]
              ELSE Reencoded(raw_pkt)[n] = codec.out[n]

\* a read packet of the adapter made in a buffer that held 0xa5 throughout
C38_Witness ==
    /\ codec.fn = "wb_read32"
    /\ codec.raw = StaleBuf(1)
    /\ codec.out[9] = 165 /\ codec.out[10] = 165
    /\ codec.out[13] = 165 /\ codec.out[16] = 165
    /\ codec.out[11] = 0 /\ codec.out[12] = 1

====
